---------------------------- MODULE Spec2Model ----------------------------
(***************************************************************************)
(* Student management system: the record store (database.py) and the       *)
(* validators (utils.py) as a state machine.                               *)
(*                                                                         *)
(* Text is a sequence of characters.  A character is a one-letter string;  *)
(* characters outside printable ASCII are written as tokens: "LF" is the   *)
(* line feed, "uXXXX" the code point U+XXXX.                               *)
(*                                                                         *)
(* A Python value is a record [k, n, s]: k is its type ("absent" for a key *)
(* a dict does not hold, "none", "int", "float", "nan" for float('nan'),   *)
(* "str"), n its number, s its text.  The values SQLite stores and hands   *)
(* back are the "int", "float" and "str" ones.                             *)
(***************************************************************************)
EXTENDS Integers, Sequences, FiniteSets, TLC

\* ------------------------------------------------------------ characters

AsciiDigits == {"0", "1", "2", "3", "4", "5", "6", "7", "8", "9"}

\* Characters of Unicode category Nd outside ASCII (ARABIC-INDIC DIGITs).
UnicodeDigits == {"u0660", "u0661", "u0663"}

LowerLetters == {"a", "b", "n", "x"}

UpperLetters == {"A", "B", "N", "X"}

Spaces == {" ", "LF"}

CharCode(c) ==
    CASE c = "LF" -> 10
      [] c = " " -> 32
      [] c = "%" -> 37
      [] c = "-" -> 45
      [] c = "." -> 46
      [] c = "0" -> 48
      [] c = "1" -> 49
      [] c = "2" -> 50
      [] c = "3" -> 51
      [] c = "4" -> 52
      [] c = "5" -> 53
      [] c = "6" -> 54
      [] c = "7" -> 55
      [] c = "8" -> 56
      [] c = "9" -> 57
      [] c = "A" -> 65
      [] c = "B" -> 66
      [] c = "N" -> 78
      [] c = "X" -> 88
      [] c = "_" -> 95
      [] c = "a" -> 97
      [] c = "b" -> 98
      [] c = "n" -> 110
      [] c = "x" -> 120
      [] c = "u00b7" -> 183
      [] c = "u0660" -> 1632
      [] c = "u0661" -> 1633
      [] c = "u0663" -> 1635
      [] c = "u4e00" -> 19968
      [] c = "u4e0e" -> 19982
      [] c = "u4e8c" -> 20108
      [] c = "u4eba" -> 20154
      [] c = "u4ef6" -> 20214
      [] c = "u5973" -> 22899
      [] c = "u5b66" -> 23398
      [] c = "u5de5" -> 24037
      [] c = "u5f20" -> 24352
      [] c = "u6280" -> 25216
      [] c = "u667a" -> 26234
      [] c = "u672f" -> 26415
      [] c = "u673a" -> 26426
      [] c = "u73ed" -> 29677
      [] c = "u7537" -> 30007
      [] c = "u79d1" -> 31185
      [] c = "u7a0b" -> 31243
      [] c = "u7b97" -> 31639
      [] c = "u80fd" -> 33021
      [] c = "u8ba1" -> 35745
      [] c = "u8f6f" -> 36719

\* Python's \d and int()/float() digits: any Unicode decimal digit.
IsDecimalDigit(c) == c \in AsciiDigits \cup UnicodeDigits

DigitValue(c) ==
    IF c \in AsciiDigits THEN CharCode(c) - 48 ELSE CharCode(c) - 1632

\* str.lower() / SQLite's ASCII-only case folding, on the letters modelled.
ToLower(c) ==
    CASE c = "A" -> "a"
      [] c = "B" -> "b"
      [] c = "N" -> "n"
      [] c = "X" -> "x"
      [] OTHER -> c

RECURSIVE DigitsValue(_)
DigitsValue(s) ==
    IF Len(s) = 0 THEN 0
    ELSE 10 * DigitsValue(SubSeq(s, 1, Len(s) - 1)) + DigitValue(s[Len(s)])

RECURSIVE Strip(_)
\* str.strip(): leading and trailing whitespace removed.
Strip(s) ==
    IF Len(s) = 0 THEN s
    ELSE IF s[1] \in Spaces THEN Strip(Tail(s))
    ELSE IF s[Len(s)] \in Spaces THEN Strip(SubSeq(s, 1, Len(s) - 1))
    ELSE s

\* Binary (code point) comparison of two texts: -1, 0 or 1.
RECURSIVE TextCmp(_, _)
TextCmp(a, b) ==
    IF Len(a) = 0 /\ Len(b) = 0 THEN 0
    ELSE IF Len(a) = 0 THEN -1
    ELSE IF Len(b) = 0 THEN 1
    ELSE IF CharCode(a[1]) < CharCode(b[1]) THEN -1
    ELSE IF CharCode(a[1]) > CharCode(b[1]) THEN 1
    ELSE TextCmp(Tail(a), Tail(b))

\* ---------------------------------------------------------- Python values

Absent == [k |-> "absent", n |-> 0, s |-> <<>>]

None == [k |-> "none", n |-> 0, s |-> <<>>]

NaN == [k |-> "nan", n |-> 0, s |-> <<>>]

IntV(i) == [k |-> "int", n |-> i, s |-> <<>>]

FloatV(i) == [k |-> "float", n |-> i, s |-> <<>>]

Str(t) == [k |-> "str", n |-> 0, s |-> t]

IsNumber(v) == v.k \in {"int", "float"}

\* Python's ==: numbers compare by value whatever their type, texts by
\* content, and float('nan') equals nothing.
PyEq(a, b) ==
    \/ IsNumber(a) /\ IsNumber(b) /\ a.n = b.n
    \/ a.k = "str" /\ b.k = "str" /\ a.s = b.s
    \/ a.k = "none" /\ b.k = "none"

\* Python's truth value of an object ("not x" is its negation).
Truthy(v) ==
    CASE v.k = "none" -> FALSE
      [] v.k = "absent" -> FALSE
      [] v.k = "str" -> Len(v.s) > 0
      [] v.k = "nan" -> TRUE
      [] OTHER -> v.n # 0

\* -------------------------------------------------------------- constants

Class1 == <<"u8ba1", "u7b97", "u673a", "u4e00", "u73ed">>

Class2 == <<"u8ba1", "u7b97", "u673a", "u4e8c", "u73ed">>

Class3 == <<"u8f6f", "u4ef6", "u5de5", "u7a0b", "u4e00", "u73ed">>

Class4 == <<"u8f6f", "u4ef6", "u5de5", "u7a0b", "u4e8c", "u73ed">>

Class5 == <<"u4eba", "u5de5", "u667a", "u80fd", "u73ed">>

MajorCS == <<"u8ba1", "u7b97", "u673a", "u79d1", "u5b66", "u4e0e", "u6280", "u672f">>

MajorSE == <<"u8f6f", "u4ef6", "u5de5", "u7a0b">>

MajorAI == <<"u4eba", "u5de5", "u667a", "u80fd">>

CLASS_LIST == <<Class1, Class2, Class3, Class4, Class5>>

MAJOR_LIST == <<MajorCS, MajorCS, MajorSE, MajorSE, MajorAI>>

\* The values of CLASS_CODE_MAP, in the order of CLASS_LIST.
CLASS_CODE_MAP == <<<<"0", "1">>, <<"0", "2">>, <<"0", "3">>, <<"0", "4">>, <<"0", "5">>>>

GENDER_OPTIONS == <<<<"u7537">>, <<"u5973">>>>

Range(f) == {f[i] : i \in DOMAIN f}

\* The columns of a student record, in the order of required_fields.
Fields ==
    <<"student_id", "name", "gender", "age", "class_name", "major",
      "enrollment_date", "score">>

\* ------------------------------------------------------------- validators
\* A validator returns (ok, msg); exc marks a call that raised instead of
\* returning, msg then naming the exception.

Pass == [ok |-> TRUE, msg |-> "", exc |-> FALSE]

Fail(m) == [ok |-> FALSE, msg |-> m, exc |-> FALSE]

Raise(e) == [ok |-> FALSE, msg |-> e, exc |-> TRUE]

\* re.match(r'^\d{9}$', s): nine decimal digits, then the end of the text or
\* a line feed that ends the text.
MatchNineDigits(s) ==
    /\ Len(s) \in {9, 10}
    /\ \A i \in 1..9 : IsDecimalDigit(s[i])
    /\ Len(s) = 10 => s[10] = "LF"

validate_student_id(student_id) ==
    IF ~Truthy(student_id) THEN Fail("id empty")
    ELSE IF student_id.k # "str" THEN Raise("TypeError")
    ELSE IF ~MatchNineDigits(student_id.s) THEN Fail("id not 9 digits")
    ELSE IF SubSeq(student_id.s, 1, 4) # <<"2", "0", "2", "4">>
        THEN Fail("id not 2024")
    ELSE IF SubSeq(student_id.s, 5, 6) \notin Range(CLASS_CODE_MAP)
        THEN Fail("id class code")
    ELSE IF ~(1 <= DigitsValue(SubSeq(student_id.s, 7, 9))
                /\ DigitsValue(SubSeq(student_id.s, 7, 9)) <= 999)
        THEN Fail("id serial")
    ELSE Pass

\* The character class [\u4e00-\u9fa5a-zA-Z\s\u00b7].
IsNameChar(c) ==
    \/ 19968 <= CharCode(c) /\ CharCode(c) <= 40869
    \/ c \in LowerLetters \cup UpperLetters
    \/ c \in Spaces
    \/ c = "u00b7"

validate_name(name) ==
    IF ~Truthy(name) THEN Fail("name empty")
    ELSE IF name.k # "str" THEN Raise("TypeError")
    ELSE IF Len(name.s) < 2 \/ Len(name.s) > 20 THEN Fail("name length")
    ELSE IF \E i \in 1..Len(name.s) : ~IsNameChar(name.s[i])
        THEN Fail("name chars")
    ELSE Pass

validate_age(age) ==
    IF age.k # "int" THEN Fail("age not int")
    ELSE IF age.n < 1 \/ age.n > 100 THEN Fail("age range")
    ELSE Pass

\* Groups of decimal digits joined by single underscores.
RECURSIVE IsDigitGroups(_)
IsDigitGroups(s) ==
    /\ Len(s) > 0
    /\ IsDecimalDigit(s[1])
    /\ \/ Len(s) = 1
       \/ IsDigitGroups(Tail(s))
       \/ Len(s) > 2 /\ s[2] = "_" /\ IsDigitGroups(SubSeq(s, 3, Len(s)))

RECURSIVE DropUnderscores(_)
DropUnderscores(s) ==
    IF Len(s) = 0 THEN s
    ELSE IF s[1] = "_" THEN DropUnderscores(Tail(s))
    ELSE <<s[1]>> \o DropUnderscores(Tail(s))

Unsigned(s) == IF Len(s) > 0 /\ s[1] = "-" THEN Tail(s) ELSE s

\* float(x) on the texts the characters modelled can spell: optional
\* whitespace around, an optional sign, then digit groups or "nan".
\* ValueError is reported as None.
PyFloatOfText(s) ==
    LET t == Strip(s)
        u == Unsigned(t)
    IN  IF IsDigitGroups(u)
            THEN FloatV((IF u = t THEN 1 ELSE -1) * DigitsValue(DropUnderscores(u)))
        ELSE IF [i \in 1..Len(u) |-> ToLower(u[i])] = <<"n", "a", "n">> THEN NaN
        ELSE None

\* float(x): the float, or None when float() raises ValueError/TypeError.
PyFloat(v) ==
    CASE v.k = "int" -> FloatV(v.n)
      [] v.k = "float" -> v
      [] v.k = "nan" -> v
      [] v.k = "str" -> PyFloatOfText(v.s)
      [] OTHER -> None

validate_score(score) ==
    LET f == PyFloat(score)
    IN  IF f.k = "none" THEN Fail("score not number")
        ELSE IF f.k = "float" /\ (f.n < 0 \/ f.n > 100) THEN Fail("score range")
        ELSE Pass

IsLeap(y) == (y % 4 = 0 /\ y % 100 # 0) \/ y % 400 = 0

DaysInMonth(y, m) ==
    IF m = 2 THEN (IF IsLeap(y) THEN 29 ELSE 28)
    ELSE IF m \in {4, 6, 9, 11} THEN 30
    ELSE 31

\* %m : 1[0-2]|0[1-9]|[1-9]
IsMonthText(s) ==
    \/ Len(s) = 2 /\ s[1] = "1" /\ s[2] \in {"0", "1", "2"}
    \/ Len(s) = 2 /\ s[1] = "0" /\ s[2] \in AsciiDigits \ {"0"}
    \/ Len(s) = 1 /\ s[1] \in AsciiDigits \ {"0"}

\* %d : 3[01]|[12]\d|0[1-9]|[1-9]| [1-9]
IsDayText(s) ==
    \/ Len(s) = 2 /\ s[1] = "3" /\ s[2] \in {"0", "1"}
    \/ Len(s) = 2 /\ s[1] \in {"1", "2"} /\ IsDecimalDigit(s[2])
    \/ Len(s) = 2 /\ s[1] = "0" /\ s[2] \in AsciiDigits \ {"0"}
    \/ Len(s) = 1 /\ s[1] \in AsciiDigits \ {"0"}
    \/ Len(s) = 2 /\ s[1] = " " /\ s[2] \in AsciiDigits \ {"0"}

\* datetime.strptime(s, '%Y-%m-%d') returns (does not raise ValueError).
StrptimeOk(s) ==
    /\ Len(s) >= 8
    /\ \A i \in 1..4 : IsDecimalDigit(s[i])
    /\ s[5] = "-"
    /\ \E ml \in {1, 2} :
          /\ Len(s) >= 6 + ml + 1
          /\ IsMonthText(SubSeq(s, 6, 5 + ml))
          /\ s[6 + ml] = "-"
          /\ IsDayText(SubSeq(s, 7 + ml, Len(s)))
          /\ DigitsValue(SubSeq(s, 1, 4)) >= 1
          /\ DigitsValue(Strip(SubSeq(s, 7 + ml, Len(s))))
                <= DaysInMonth(DigitsValue(SubSeq(s, 1, 4)),
                               DigitsValue(SubSeq(s, 6, 5 + ml)))

validate_date(date_str) ==
    IF ~Truthy(date_str) THEN Fail("date empty")
    ELSE IF date_str.k # "str" THEN Raise("TypeError")
    ELSE IF ~StrptimeOk(date_str.s) THEN Fail("date format")
    ELSE Pass

\* x in <list of str>
InTexts(v, texts) == \E i \in DOMAIN texts : PyEq(v, Str(texts[i]))

\* The check of the required fields: the first field that is missing, None
\* or '', or 0 when there is none.
FirstMissing(data) ==
    LET miss == {i \in DOMAIN Fields :
                    \/ data[Fields[i]].k \in {"absent", "none"}
                    \/ PyEq(data[Fields[i]], Str(<<>>))}
    IN  IF miss = {} THEN 0 ELSE CHOOSE i \in miss : \A j \in miss : i <= j

\* Fault: the check of the class left out.
validate_student_data_NoClass(data) ==
    LET id == validate_student_id(data.student_id)
        nm == validate_name(data.name)
        ag == validate_age(data.age)
        sc == validate_score(data.score)
        dt == validate_date(data.enrollment_date)
    IN  IF FirstMissing(data) # 0 THEN Fail(Fields[FirstMissing(data)])
        ELSE IF ~id.ok THEN id
        ELSE IF ~nm.ok THEN nm
        ELSE IF ~ag.ok THEN ag
        ELSE IF ~sc.ok THEN sc
        ELSE IF ~dt.ok THEN dt
        ELSE IF ~InTexts(data.gender, GENDER_OPTIONS) THEN Fail("gender")
        ELSE Pass

validate_student_data(data) ==
    LET id == validate_student_id(data.student_id)
        nm == validate_name(data.name)
        ag == validate_age(data.age)
        sc == validate_score(data.score)
        dt == validate_date(data.enrollment_date)
    IN  IF FirstMissing(data) # 0 THEN Fail(Fields[FirstMissing(data)])
        ELSE IF ~id.ok THEN id
        ELSE IF ~nm.ok THEN nm
        ELSE IF ~ag.ok THEN ag
        ELSE IF ~sc.ok THEN sc
        ELSE IF ~dt.ok THEN dt
        ELSE IF ~InTexts(data.gender, GENDER_OPTIONS) THEN Fail("gender")
        ELSE IF ~InTexts(data.class_name, CLASS_LIST) THEN Fail("class")
        ELSE Pass

\* ----------------------------------------------------------------- SQLite
\* The table students: a sequence of rows in rowid order.  A row holds its
\* rowid (id) and the eight columns; every column is NOT NULL.

VARIABLES students, sqlite_sequence, last, call,
          class_counters, progress, app, threads, events

\* The generator, the window, its background tasks and its event queue.
appVars == <<class_counters, progress, app, threads, events>>

vars == <<students, sqlite_sequence, last, call, class_counters, progress,
          app, threads, events>>

\* The declared type of each column of CREATE TABLE students.
ColumnAffinity(f) ==
    CASE f = "age" -> "INTEGER"
      [] f = "score" -> "REAL"
      [] OTHER -> "TEXT"

\* The value sqlite3 binds for a Python value: None and float('nan') become
\* NULL (written None).
Bind(v) == IF v.k \in {"none", "nan"} THEN None ELSE v

RECURSIVE NatText(_)
NatText(n) ==
    IF n < 10 THEN <<CHOOSE c \in AsciiDigits : DigitValue(c) = n>>
    ELSE NatText(n \div 10) \o NatText(n % 10)

IntText(n) == IF n < 0 THEN <<"-">> \o NatText(-n) ELSE NatText(n)

\* Whether SQLite reads the text as an integer literal (whitespace around,
\* an optional sign, ASCII digits), for the texts without '.', 'e' or '+'.
IsSqlNumeric(s) ==
    LET u == Unsigned(Strip(s))
    IN  Len(u) > 0 /\ \A i \in 1..Len(u) : u[i] \in AsciiDigits

SqlNumber(s) ==
    LET t == Strip(s)
    IN  (IF Unsigned(t) = t THEN 1 ELSE -1) * DigitsValue(Unsigned(t))

\* Column type affinity, applied to a value when it is stored.
ApplyAffinity(aff, v) ==
    CASE v.k = "none" -> v
      [] aff = "TEXT" /\ v.k = "int" -> Str(IntText(v.n))
      [] aff = "TEXT" /\ v.k = "float" -> Str(IntText(v.n) \o <<".", "0">>)
      [] aff = "INTEGER" /\ v.k = "float" -> IntV(v.n)
      [] aff = "INTEGER" /\ v.k = "str" /\ IsSqlNumeric(v.s) -> IntV(SqlNumber(v.s))
      [] aff = "REAL" /\ v.k = "int" -> FloatV(v.n)
      [] aff = "REAL" /\ v.k = "str" /\ IsSqlNumeric(v.s) -> FloatV(SqlNumber(v.s))
      [] OTHER -> v

\* SQLite's comparison of two stored values: numbers sort before texts,
\* numbers by value, texts by the BINARY collation.  -1, 0 or 1.
SqlCmp(a, b) ==
    IF IsNumber(a) /\ IsNumber(b)
        THEN (IF a.n < b.n THEN -1 ELSE IF a.n > b.n THEN 1 ELSE 0)
    ELSE IF IsNumber(a) THEN -1
    ELSE IF IsNumber(b) THEN 1
    ELSE TextCmp(a.s, b.s)

\* column = ? : NULL equals nothing; the column's affinity is applied to the
\* parameter before the comparison.
SqlEq(f, stored, param) ==
    /\ Bind(param).k # "none"
    /\ SqlCmp(stored, ApplyAffinity(ColumnAffinity(f), Bind(param))) = 0

\* SELECT ... WHERE student_id = ? : the positions of the matching rows.
RowsWithId(rows, student_id) ==
    {i \in 1..Len(rows) : SqlEq("student_id", rows[i].student_id, student_id)}

\* The row a dict of Python values is stored as.
StoredRow(rowid, data) ==
    [id |-> rowid,
     student_id |-> ApplyAffinity("TEXT", Bind(data.student_id)),
     name |-> ApplyAffinity("TEXT", Bind(data.name)),
     gender |-> ApplyAffinity("TEXT", Bind(data.gender)),
     age |-> ApplyAffinity("INTEGER", Bind(data.age)),
     class_name |-> ApplyAffinity("TEXT", Bind(data.class_name)),
     major |-> ApplyAffinity("TEXT", Bind(data.major)),
     enrollment_date |-> ApplyAffinity("TEXT", Bind(data.enrollment_date)),
     score |-> ApplyAffinity("REAL", Bind(data.score))]

\* The dict a SELECT of the eight columns returns for a row (dict(row)).
RowDict(row) ==
    [student_id |-> row.student_id, name |-> row.name, gender |-> row.gender,
     age |-> row.age, class_name |-> row.class_name, major |-> row.major,
     enrollment_date |-> row.enrollment_date, score |-> row.score]

HasNull(data) == \E i \in DOMAIN Fields : Bind(data[Fields[i]]).k = "none"

\* Fault: the table declared without UNIQUE on student_id.
UniqueViolation_Undeclared(rows, data) == FALSE

\* The UNIQUE constraint on student_id.
UniqueViolation(rows, data) == RowsWithId(rows, data.student_id) # {}

\* INSERT INTO students (...) VALUES (...): "" and the table with the new
\* row, whose rowid AUTOINCREMENT takes above every rowid ever used, or the
\* sqlite3.IntegrityError raised and the table as it was.
SqlInsert(rows, seq, data) ==
    IF HasNull(data)
        THEN [err |-> "NOT NULL", rows |-> rows, seq |-> seq]
    ELSE IF UniqueViolation(rows, data)
        THEN [err |-> "UNIQUE", rows |-> rows, seq |-> seq]
    ELSE [err |-> "", rows |-> Append(rows, StoredRow(seq + 1, data)),
          seq |-> seq + 1]

\* ------------------------------------------------------- DatabaseManager
\* Each operation is an operator from the table (and the AUTOINCREMENT
\* counter) to the table it commits and the value it returns.

NoData ==
    [student_id |-> Absent, name |-> Absent, gender |-> Absent, age |-> Absent,
     class_name |-> Absent, major |-> Absent, enrollment_date |-> Absent,
     score |-> Absent]

get_count(rows) == Len(rows)

\* Fault: add_student without its SELECT for the id, leaving the duplicate
\* to the UNIQUE constraint.
add_student_NoIdCheck(rows, seq, student_data) ==
    LET v == validate_student_data(student_data)
        ins == SqlInsert(rows, seq, student_data)
        same == [rows |-> rows, seq |-> seq]
    IN  IF v.exc THEN same @@ [ok |-> FALSE, msg |-> v.msg, exc |-> TRUE]
        ELSE IF ~v.ok THEN same @@ [ok |-> FALSE, msg |-> v.msg, exc |-> FALSE]
        ELSE IF ins.err # ""
            THEN same @@ [ok |-> FALSE, msg |-> "add failed", exc |-> FALSE]
        ELSE [rows |-> ins.rows, seq |-> ins.seq, ok |-> TRUE, msg |-> "added",
              exc |-> FALSE]

add_student(rows, seq, student_data) ==
    LET v == validate_student_data(student_data)
        ins == SqlInsert(rows, seq, student_data)
        same == [rows |-> rows, seq |-> seq]
    IN  IF v.exc THEN same @@ [ok |-> FALSE, msg |-> v.msg, exc |-> TRUE]
        ELSE IF ~v.ok THEN same @@ [ok |-> FALSE, msg |-> v.msg, exc |-> FALSE]
        ELSE IF RowsWithId(rows, student_data.student_id) # {}
            THEN same @@ [ok |-> FALSE, msg |-> "id exists", exc |-> FALSE]
        ELSE IF ins.err # ""
            THEN same @@ [ok |-> FALSE, msg |-> "add failed", exc |-> FALSE]
        ELSE [rows |-> ins.rows, seq |-> ins.seq, ok |-> TRUE, msg |-> "added",
              exc |-> FALSE]

allowed_fields ==
    <<"name", "gender", "age", "class_name", "major", "enrollment_date", "score">>

\* Fault: the UPDATE without its WHERE clause.
SqlUpdate_NoWhere(rows, student_id, student_data, updates) ==
    [i \in 1..Len(rows) |->
        [f \in DOMAIN rows[i] |->
            IF f \in updates
                THEN ApplyAffinity(ColumnAffinity(f), Bind(student_data[f]))
                ELSE rows[i][f]]]

\* UPDATE students SET <the supplied allowed fields> WHERE student_id = ?
SqlUpdate(rows, student_id, student_data, updates) ==
    [i \in 1..Len(rows) |->
        IF i \in RowsWithId(rows, student_id)
            THEN [f \in DOMAIN rows[i] |->
                    IF f \in updates
                        THEN ApplyAffinity(ColumnAffinity(f), Bind(student_data[f]))
                        ELSE rows[i][f]]
            ELSE rows[i]]

update_student(rows, student_id, student_data) ==
    LET updates == {f \in Range(allowed_fields) : student_data[f].k # "absent"}
    IN  IF RowsWithId(rows, student_id) = {}
            THEN [rows |-> rows, ok |-> FALSE, msg |-> "not found"]
        ELSE IF updates = {}
            THEN [rows |-> rows, ok |-> FALSE, msg |-> "no fields"]
        ELSE IF \E f \in updates : Bind(student_data[f]).k = "none"
            THEN [rows |-> rows, ok |-> FALSE, msg |-> "update failed"]
        ELSE [rows |-> SqlUpdate(rows, student_id, student_data, updates),
              ok |-> TRUE, msg |-> "updated"]

\* Fault: the DELETE without its WHERE clause.
SqlDelete_NoWhere(rows, student_id) == <<>>

\* DELETE FROM students WHERE student_id = ?
SqlDelete(rows, student_id) ==
    LET keep(r) == ~SqlEq("student_id", r.student_id, student_id)
    IN  SelectSeq(rows, keep)

delete_student(rows, student_id) ==
    IF Len(SqlDelete(rows, student_id)) = Len(rows)
        THEN [rows |-> rows, ok |-> FALSE, msg |-> "not found"]
    ELSE [rows |-> SqlDelete(rows, student_id), ok |-> TRUE, msg |-> "deleted"]

\* The dict of the row with the id, or NoData for None.
get_student(rows, student_id) ==
    IF RowsWithId(rows, student_id) = {} THEN NoData
    ELSE RowDict(rows[CHOOSE i \in RowsWithId(rows, student_id) :
                        \A j \in RowsWithId(rows, student_id) : i <= j])

\* The loop of batch_insert from record i on, inside one transaction: the
\* rows inserted so far, the two counters, and whether an exception other
\* than sqlite3.IntegrityError (the KeyError of a dict without one of the
\* columns) left the loop.  ins is the outcome of the one INSERT of
\* record i.
RECURSIVE BatchLoop(_, _, _, _, _, _)
BatchLoop(rows, seq, list, i, success_count, fail_count) ==
    IF i > Len(list)
        THEN [rows |-> rows, seq |-> seq, success |-> success_count,
              fail |-> fail_count, aborted |-> FALSE]
    ELSE IF \E j \in DOMAIN Fields : list[i][Fields[j]].k = "absent"
        THEN [rows |-> rows, seq |-> seq, success |-> success_count,
              fail |-> fail_count, aborted |-> TRUE]
    ELSE CHOOSE b \in
             {IF ins.err # ""
                  THEN BatchLoop(rows, seq, list, i + 1, success_count,
                                 fail_count + 1)
              ELSE BatchLoop(ins.rows, ins.seq, list, i + 1,
                             success_count + 1, fail_count) :
                 ins \in {SqlInsert(rows, seq, list[i])}} : TRUE

\* Fault: a record the table rejects is counted as inserted.
batch_insert_CountsRejected(rows, seq, list) ==
    LET b == BatchLoop(rows, seq, list, 1, 0, 0)
    IN  [rows |-> b.rows, seq |-> b.seq, success |-> b.success + b.fail,
         fail |-> 0]

\* conn.commit() is reached only when the loop ends normally; otherwise the
\* connection is closed with the transaction open, which rolls it back.
batch_insert(rows, seq, list) ==
    LET b == BatchLoop(rows, seq, list, 1, 0, 0)
    IN  IF b.aborted
            THEN [rows |-> rows, seq |-> seq, success |-> b.success,
                  fail |-> b.fail]
        ELSE [rows |-> b.rows, seq |-> b.seq, success |-> b.success,
              fail |-> b.fail]

\* ---------------------------------------------------------- search_students
\* A query is the record of the arguments of search_students: keyword,
\* class_name and major are texts, min_score, max_score, limit and offset
\* integers, order_by a column name, order_desc a boolean.

\* Fault: LIKE comparing letters with regard to case.
RECURSIVE SqlLike_CaseSensitive(_, _)
SqlLike_CaseSensitive(pattern, text) ==
    IF Len(pattern) = 0 THEN Len(text) = 0
    ELSE IF pattern[1] = "%"
        THEN \/ SqlLike_CaseSensitive(Tail(pattern), text)
             \/ Len(text) > 0 /\ SqlLike_CaseSensitive(pattern, Tail(text))
    ELSE IF Len(text) = 0 THEN FALSE
    ELSE IF pattern[1] = "_" THEN SqlLike_CaseSensitive(Tail(pattern), Tail(text))
    ELSE /\ pattern[1] = text[1]
         /\ SqlLike_CaseSensitive(Tail(pattern), Tail(text))

\* text LIKE pattern: '%' matches any run of characters, '_' any one
\* character, any other character itself, ASCII letters without regard to
\* case (SQLite's default, no PRAGMA case_sensitive_like, no ESCAPE).
RECURSIVE SqlLike(_, _)
SqlLike(pattern, text) ==
    IF Len(pattern) = 0 THEN Len(text) = 0
    ELSE IF pattern[1] = "%"
        THEN \/ SqlLike(Tail(pattern), text)
             \/ Len(text) > 0 /\ SqlLike(pattern, Tail(text))
    ELSE IF Len(text) = 0 THEN FALSE
    ELSE IF pattern[1] = "_" THEN SqlLike(Tail(pattern), Tail(text))
    ELSE /\ ToLower(pattern[1]) = ToLower(text[1])
         /\ SqlLike(Tail(pattern), Tail(text))

\* The lists conditions and params the code builds, as one list of
\* (column, operator, parameter).
Conditions(q) ==
    (IF Len(q.keyword) > 0
        THEN <<[col |-> "name", op |-> "LIKE",
                param |-> Str(<<"%">> \o q.keyword \o <<"%">>)]>>
        ELSE <<>>)
    \o (IF Len(q.class_name) > 0
        THEN <<[col |-> "class_name", op |-> "=", param |-> Str(q.class_name)]>>
        ELSE <<>>)
    \o (IF Len(q.major) > 0
        THEN <<[col |-> "major", op |-> "=", param |-> Str(q.major)]>>
        ELSE <<>>)
    \o <<[col |-> "score", op |-> ">=", param |-> IntV(q.min_score)],
         [col |-> "score", op |-> "<=", param |-> IntV(q.max_score)]>>

\* One condition of the WHERE clause on one row.
EvalCondition(c, row) ==
    CASE c.op = "LIKE" -> row[c.col].k = "str" /\ SqlLike(c.param.s, row[c.col].s)
      [] c.op = "=" -> SqlEq(c.col, row[c.col], c.param)
      [] c.op = ">=" -> SqlCmp(row[c.col], c.param) >= 0
      [] c.op = "<=" -> SqlCmp(row[c.col], c.param) <= 0

\* Fault: the conditions joined with ' OR '.
WhereClause_Or(conditions, row) ==
    \E i \in DOMAIN conditions : EvalCondition(conditions[i], row)

\* ' AND '.join(conditions)
WhereClause(conditions, row) ==
    \A i \in DOMAIN conditions : EvalCondition(conditions[i], row)

\* SELECT ... FROM students WHERE <where_clause>: the matching rows.
SqlWhere(rows, conditions) ==
    {rows[i] : i \in {j \in 1..Len(rows) : WhereClause(conditions, rows[j])}}

allowed_order_fields ==
    <<"student_id", "name", "age", "class_name", "major", "score",
      "enrollment_date">>

\* Fault: the order key taken as given.
OrderColumn_AsGiven(order_by) == order_by

\* An order key outside the whitelist is replaced by student_id.
OrderColumn(order_by) ==
    IF order_by \notin Range(allowed_order_fields) THEN "student_id" ELSE order_by

\* Fault: the direction of the ordering ignored.
ComesFirst_Asc(a, b, col, order_desc) == SqlCmp(a[col], b[col]) <= 0

\* Row a may come before row b under ORDER BY col ASC|DESC.
ComesFirst(a, b, col, order_desc) ==
    IF order_desc THEN SqlCmp(a[col], b[col]) >= 0
    ELSE SqlCmp(a[col], b[col]) <= 0

\* ORDER BY col: every arrangement of the rows in the order of the column;
\* SQL leaves the order of rows with equal keys open.
RECURSIVE SqlOrderBy(_, _, _)
SqlOrderBy(rowset, col, order_desc) ==
    IF rowset = {} THEN {<<>>}
    ELSE UNION {{<<r>> \o rest :
                    rest \in UNION {SqlOrderBy(others, col, order_desc) :
                                        others \in {rowset \ {r}}}} :
                r \in {x \in rowset :
                        \A y \in rowset : ComesFirst(x, y, col, order_desc)}}

\* Fault: the window one row too long.
SqlLimit_OneMore(seq, limit, offset) ==
    LET from == (IF offset < 0 THEN 0 ELSE offset) + 1
        to == IF limit < 0 THEN Len(seq)
              ELSE IF from + limit > Len(seq) THEN Len(seq)
              ELSE from + limit
    IN  SubSeq(seq, from, to)

\* LIMIT ? OFFSET ?: a negative limit is no limit, a negative offset is 0.
SqlLimit(seq, limit, offset) ==
    LET from == (IF offset < 0 THEN 0 ELSE offset) + 1
        to == IF limit < 0 THEN Len(seq)
              ELSE IF from + limit - 1 > Len(seq) THEN Len(seq)
              ELSE from + limit - 1
    IN  SubSeq(seq, from, to)

\* The results search_students can return: (students, total_count), one for
\* each order the database may return rows with equal keys in.
search_students(rows, q) ==
    UNION {{[students |-> [i \in 1..Len(page) |-> RowDict(page[i])],
             total_count |-> Cardinality(matching)] :
                page \in {SqlLimit(s, q.limit, q.offset) :
                            s \in SqlOrderBy(matching, OrderColumn(q.order_by),
                                             q.order_desc)}} :
           matching \in UNION {{SqlWhere(rows, conditions)} :
                                  conditions \in {Conditions(q)}}}

\* ----------------------------------------------------------------- inputs

\* The rowids the model lets AUTOINCREMENT hand out.
MaxRowId == 2

Sid1 == <<"2", "0", "2", "4", "0", "1", "0", "0", "1">>

Sid2 == <<"2", "0", "2", "4", "0", "1", "0", "0", "2">>

SidShort == <<"1", "2", "3", "4", "5">>

Date1 == <<"2", "0", "2", "4", "-", "0", "9", "-", "0", "1">>

\* A record every validator accepts.
BaseRecord(sid) ==
    [student_id |-> Str(sid), name |-> Str(<<"A", "b">>),
     gender |-> Str(GENDER_OPTIONS[1]), age |-> IntV(20),
     class_name |-> Str(Class1), major |-> Str(MajorCS),
     enrollment_date |-> Str(Date1), score |-> FloatV(60)]

\* The dicts handed to add_student: records every validator accepts, two of
\* them with the same id, and records with one field that is missing, of
\* the wrong type or out of range.
AddInputs ==
    {BaseRecord(Sid1), BaseRecord(Sid2), BaseRecord(SidShort),
     [BaseRecord(Sid1) EXCEPT !.score = Str(<<"8", "5">>)],
     [BaseRecord(Sid1) EXCEPT !.score = NaN],
     [BaseRecord(Sid1) EXCEPT !.score = FloatV(150)],
     [BaseRecord(Sid1) EXCEPT !.score = None],
     [BaseRecord(Sid1) EXCEPT !.name = Str(<<"a", "%">>)],
     [BaseRecord(Sid1) EXCEPT !.age = Str(<<"2", "0">>)],
     [BaseRecord(Sid1) EXCEPT !.class_name = Str(<<"X">>)],
     [BaseRecord(Sid1) EXCEPT !.gender = Absent],
     [BaseRecord(Sid1) EXCEPT !.enrollment_date =
        Str(<<"2", "0", "2", "4", "-", "1", "3", "-", "0", "1">>)]}

\* The dicts handed to update_student.
UpdateInputs ==
    {NoData,
     [NoData EXCEPT !.student_id = Str(Sid2)],
     [NoData EXCEPT !.student_id = Str(Sid2), !.name = Str(<<"a", "_">>)],
     [NoData EXCEPT !.score = FloatV(150)],
     [NoData EXCEPT !.score = None],
     [NoData EXCEPT !.score = NaN],
     [NoData EXCEPT !.class_name = Str(<<"X">>), !.major = IntV(5)]}

\* The ids handed to update_student, delete_student and get_student.
IdInputs == {Str(Sid1), Str(Sid2)}

\* The lists handed to batch_insert.
BatchInputs ==
    {<<>>,
     <<BaseRecord(Sid1), BaseRecord(Sid2)>>,
     <<BaseRecord(Sid2), [BaseRecord(Sid2) EXCEPT !.score = FloatV(150)]>>,
     <<[BaseRecord(Sid1) EXCEPT !.name = None], BaseRecord(Sid1)>>,
     <<BaseRecord(Sid1), [BaseRecord(Sid2) EXCEPT !.major = Absent]>>}

\* The arguments search_students takes when none is given.
DefaultQuery ==
    [keyword |-> <<>>, class_name |-> <<>>, major |-> <<>>, min_score |-> 0,
     max_score |-> 100, order_by |-> "student_id", order_desc |-> FALSE,
     limit |-> 20, offset |-> 0]

\* ------------------------------------------------------------ state machine

\* No call is inside a connection scope.
NoCall == [op |-> "", pc |-> "idle", conn |-> "none", exit |-> ""]

NoLast ==
    [op |-> "init", sid |-> Absent, data |-> NoData, batch |-> <<>>,
     ok |-> FALSE, msg |-> "", exc |-> FALSE, row |-> NoData,
     success |-> 0, fail |-> 0, q |-> DefaultQuery, students |-> <<>>,
     total_count |-> 0, fault |-> FALSE, bins |-> 0, result |-> <<>>,
     count |-> 0, generated |-> <<>>, counters |-> <<>>, calls |-> 0]

\* DataGenerator.__init__: every class counter is 0.
NoCounters == [i \in DOMAIN CLASS_LIST |-> 0]

\* page_size of MainApp.__init__ (20 in the code), scaled down so that a few
\* records fill more than one page.
PageSize == 2

\* MainApp after __init__: the paging, sorting and filter fields, the
\* selection, the rows of the table, the state of the first/previous and of
\* the next/last buttons, the two start-up timers registered with
\* after(), the open progress dialogs, the calls of _on_generate_data that
\* are inside ProgressDialog.__init__, and the tasks that
\* _on_generate_complete has run for.
MainApp ==
    [current_page |-> 1, page_size |-> PageSize, total_records |-> 0,
     sort_column |-> "student_id", sort_desc |-> FALSE,
     filter_keyword |-> <<>>, filter_class |-> <<>>, filter_major |-> <<>>,
     filter_min_score |-> 0, filter_max_score |-> 100,
     selected_student |-> Absent, tree |-> <<>>,
     prev_btn |-> "normal", next_btn |-> "normal",
     timers |-> <<"_check_and_generate_data", "_load_data">>,
     dialogs |-> {}, opening |-> <<>>, completed |-> <<>>]

\* No generator has produced a record, no window is open, no task runs.
NoGeneration ==
    /\ class_counters = NoCounters
    /\ progress = <<>>
    /\ app = MainApp
    /\ threads = <<>>
    /\ events = <<>>

Init ==
    /\ students = <<>>
    /\ sqlite_sequence = 0
    /\ last = NoLast
    /\ call = NoCall
    /\ NoGeneration

AddStudent(student_data) ==
    LET r == add_student(students, sqlite_sequence, student_data)
    IN  /\ sqlite_sequence < MaxRowId
        /\ students' = r.rows
        /\ sqlite_sequence' = r.seq
        /\ UNCHANGED <<call, appVars>>
        /\ last' = [NoLast EXCEPT !.op = "add_student", !.data = student_data,
                                  !.ok = r.ok, !.msg = r.msg, !.exc = r.exc]

UpdateStudent(student_id, student_data) ==
    LET r == update_student(students, student_id, student_data)
    IN  /\ students' = r.rows
        /\ UNCHANGED sqlite_sequence
        /\ UNCHANGED <<call, appVars>>
        /\ last' = [NoLast EXCEPT !.op = "update_student", !.sid = student_id,
                                  !.data = student_data, !.ok = r.ok,
                                  !.msg = r.msg]

DeleteStudent(student_id) ==
    LET r == delete_student(students, student_id)
    IN  /\ students' = r.rows
        /\ UNCHANGED sqlite_sequence
        /\ UNCHANGED <<call, appVars>>
        /\ last' = [NoLast EXCEPT !.op = "delete_student", !.sid = student_id,
                                  !.ok = r.ok, !.msg = r.msg]

GetStudent(student_id) ==
    /\ UNCHANGED <<students, sqlite_sequence>>
    /\ UNCHANGED <<call, appVars>>
    /\ last' = [NoLast EXCEPT !.op = "get_student", !.sid = student_id,
                              !.row = get_student(students, student_id)]

BatchInsert(list) ==
    LET r == batch_insert(students, sqlite_sequence, list)
    IN  /\ sqlite_sequence + Len(list) <= MaxRowId
        /\ students' = r.rows
        /\ sqlite_sequence' = r.seq
        /\ UNCHANGED <<call, appVars>>
        /\ last' = [NoLast EXCEPT !.op = "batch_insert", !.batch = list,
                                  !.success = r.success, !.fail = r.fail]

Next ==
    \/ \E d \in AddInputs : AddStudent(d)
    \/ \E sid \in IdInputs, d \in UpdateInputs : UpdateStudent(sid, d)
    \/ \E sid \in IdInputs : DeleteStudent(sid)
    \/ \E sid \in IdInputs : GetStudent(sid)
    \/ \E l \in BatchInputs : BatchInsert(l)

Spec == Init /\ [][Next]_vars

\* ------------------------------------------------- searching a loaded table

\* The records of the loaded table, at most.
MaxLoad == 2

\* The largest page size and the largest offset asked for.
MaxLimit == 2

MaxOffset == 4

Sid3 == <<"2", "0", "2", "4", "0", "1", "0", "0", "3">>

Sid4 == <<"2", "0", "2", "4", "0", "1", "0", "0", "4">>

Sid5 == <<"2", "0", "2", "4", "0", "1", "0", "0", "5">>

Sid6 == <<"2", "0", "2", "4", "0", "3", "0", "0", "1">>

\* Records that differ in the case of the name, in class, major and score;
\* one name holds '_', one score is a text no number can be read from.
SearchRecords ==
    <<BaseRecord(Sid1),
      [BaseRecord(Sid2) EXCEPT !.name = Str(<<"A", "B">>),
                               !.major = Str(MajorSE), !.score = FloatV(85)],
      [BaseRecord(Sid6) EXCEPT !.name = Str(<<"a", "_">>),
                               !.class_name = Str(Class3),
                               !.major = Str(MajorSE)],
      [BaseRecord(Sid3) EXCEPT !.name = Str(<<"B", "x">>),
                               !.score = Str(<<"n", "a", "n">>)]>>

\* The elements of seq at the positions in keep, in the order of seq.
RECURSIVE SubList(_, _)
SubList(seq, keep) ==
    IF Len(seq) = 0 THEN <<>>
    ELSE SubList(SubSeq(seq, 1, Len(seq) - 1), keep)
         \o (IF Len(seq) \in keep THEN <<seq[Len(seq)]>> ELSE <<>>)

\* Five records 202401001 .. 202401005 of one class; two of them have the
\* same score.
FiveRecords ==
    <<BaseRecord(Sid1),
      [BaseRecord(Sid2) EXCEPT !.name = Str(<<"a", "b">>), !.score = FloatV(85)],
      [BaseRecord(Sid3) EXCEPT !.name = Str(<<"A", "B">>), !.score = FloatV(0)],
      [BaseRecord(Sid4) EXCEPT !.name = Str(<<"x">>), !.score = FloatV(100)],
      [BaseRecord(Sid5) EXCEPT !.name = Str(<<"B", "n", "x">>)]>>

\* The lists a table is loaded from.
LoadInputs ==
    {SubList(SearchRecords, keep) :
        keep \in {k \in SUBSET (1..Len(SearchRecords)) : Cardinality(k) <= MaxLoad}}
    \cup {FiveRecords}

Keywords == {<<>>, <<"a">>, <<"_">>, <<"a", "b">>, <<"b", "%", "x">>}

\* Queries that vary the filter and queries that vary order and window.
SearchInputs ==
    {[DefaultQuery EXCEPT !.keyword = kw, !.class_name = c, !.major = m,
                          !.min_score = sc[1], !.max_score = sc[2]] :
        kw \in Keywords, c \in {<<>>, Class1}, m \in {<<>>, MajorSE},
        sc \in {<<0, 100>>, <<60, 85>>}}
    \cup
    {[DefaultQuery EXCEPT !.class_name = c, !.order_by = ob, !.order_desc = d,
                          !.limit = lim, !.offset = off] :
        c \in {<<>>, Class1},
        ob \in {"student_id", "score"},
        d \in BOOLEAN, lim \in 1..MaxLimit, off \in 0..MaxOffset}
    \cup
    {[DefaultQuery EXCEPT !.order_by = "gender", !.order_desc = d,
                          !.limit = MaxLimit, !.offset = off] :
        d \in BOOLEAN, off \in 0..1}

\* batch_insert into the empty table, as the generation of sample data does.
LoadStudents(list) ==
    /\ sqlite_sequence = 0
    /\ \E r \in {batch_insert(students, sqlite_sequence, list)} :
        /\ students' = r.rows
        /\ sqlite_sequence' = r.seq
        /\ UNCHANGED <<call, appVars>>
        /\ last' = [NoLast EXCEPT !.op = "batch_insert", !.batch = list,
                                  !.success = r.success, !.fail = r.fail]

SearchStudents(q) ==
    \E r \in search_students(students, q) :
        /\ UNCHANGED <<students, sqlite_sequence>>
        /\ UNCHANGED <<call, appVars>>
        /\ last' = [NoLast EXCEPT !.op = "search_students", !.q = q,
                                  !.students = r.students,
                                  !.total_count = r.total_count]

NextSearch ==
    \/ \E l \in LoadInputs : LoadStudents(l)
    \/ \E q \in SearchInputs : SearchStudents(q)

SpecSearch == Init /\ [][NextSearch]_vars

\* ------------------------------------------------------------ properties

\* The positions of the rows whose student_id is the text value sid.
Holding(rows, sid) == {i \in 1..Len(rows) : rows[i].student_id = sid}

\* A record with nothing wrong but, possibly, an id already in use: the one
\* add_student accepts when the table is empty.
OtherwiseValid(data) == add_student(<<>>, 0, data).ok

\* The eight columns a dict is stored as.
StoredDict(data) == RowDict(StoredRow(0, data))

\* C1 (step): an add_student call with an otherwise valid record succeeds
\* and stores the record when no row has its student_id, and returns the
\* duplicate-key failure, leaving the table as it was, when one has.
C1_Step ==
    (last'.op = "add_student" /\ OtherwiseValid(last'.data)) =>
        IF Holding(students, last'.data.student_id) = {}
            THEN /\ last'.ok
                 /\ Len(students') = Len(students) + 1
                 /\ SubSeq(students', 1, Len(students)) = students
                 /\ RowDict(students'[Len(students')]) = StoredDict(last'.data)
            ELSE /\ ~last'.ok
                 /\ last'.msg = "id exists"
                 /\ students' = students

\* C1 (pair): of two consecutive add_student calls with the same student_id,
\* the first one successful, the second returns the duplicate-key failure
\* and the table holds one row with that id, the record of the first call.
C1_Pair ==
    (/\ last.op = "add_student" /\ last.ok
     /\ last'.op = "add_student" /\ OtherwiseValid(last'.data)
     /\ last'.data.student_id = last.data.student_id) =>
        /\ ~last'.ok /\ last'.msg = "id exists"
        /\ Cardinality(Holding(students', last.data.student_id)) = 1
        /\ get_student(students', last.data.student_id) = StoredDict(last.data)

\* C1: two add_student calls with the same student_id, both records
\* otherwise valid, in either order: exactly one succeeds, the other returns
\* the duplicate-key failure, and the table then holds exactly one record
\* with that id, the one inserted first, untouched by the failed call.
C1_DuplicateKey == [][C1_Step /\ C1_Pair]_vars

\* C1 witness: a duplicate-key failure for an otherwise valid record that
\* differs from the record stored under its id.
C1_Witness ==
    /\ last.op = "add_student" /\ last.msg = "id exists"
    /\ OtherwiseValid(last.data)
    /\ Cardinality(Holding(students, last.data.student_id)) = 1
    /\ get_student(students, last.data.student_id) # StoredDict(last.data)

UniqueIds ==
    \A i, j \in 1..Len(students) :
        students[i].student_id = students[j].student_id => i = j

IdsKept ==
    \A i \in 1..Len(students), j \in 1..Len(students') :
        students'[j].id = students[i].id
            => students'[j].student_id = students[i].student_id

\* C2: after any sequence of add_student, batch_insert, update_student and
\* delete_student calls no two stored records have the same student_id, and
\* no operation changes the student_id of an existing record (a row, known
\* by its rowid, keeps its student_id for as long as it exists).
C2_UniqueImmutableId == []UniqueIds /\ [][IdsKept]_vars

\* C2 witness: update_student has succeeded on one record with a dict that
\* names another student_id, and two records are stored.
C2_Witness ==
    /\ last.op = "update_student" /\ last.ok
    /\ last.data.student_id.k = "str"
    /\ last.data.student_id # last.sid
    /\ Len(students) = 2

\* C3: add_student never persists a record validate_student_data rejects
\* (it returns (False, reason) and leaves the table unchanged, whether or
\* not the id is in use), and for a record validate_student_data accepts
\* whose student_id is unused it persists the record and returns success.
C3_ValidatedInsert ==
    [][last'.op = "add_student" =>
        /\ (~validate_student_data(last'.data).ok /\ ~last'.exc) =>
                (~last'.ok /\ last'.msg # "" /\ students' = students)
        /\ (/\ validate_student_data(last'.data).ok
            /\ Holding(students, last'.data.student_id) = {}) =>
                (/\ last'.ok
                 /\ Len(students') = Len(students) + 1
                 /\ RowDict(students'[Len(students')]) = StoredDict(last'.data))
      ]_vars

\* C4: after add_student succeeds for a record r, get_student(r.student_id)
\* returns a record equal (Python ==) to r in all eight fields.
C4_RoundTrip ==
    (last.op = "add_student" /\ last.ok) =>
        \A i \in DOMAIN Fields :
            PyEq(get_student(students, last.data.student_id)[Fields[i]],
                 last.data[Fields[i]])

\* The row of students' at position i is the row of students at position i
\* with the fields of the set fs taken from the dict, as their columns
\* store them, and every other field as it was.
Overwritten(i, fs, data) ==
    /\ students'[i].id = students[i].id
    /\ \A j \in DOMAIN Fields :
        students'[i][Fields[j]] =
            IF Fields[j] \in fs
                THEN StoredDict(data)[Fields[j]]
                ELSE students[i][Fields[j]]

\* The mutable fields a dict supplies.
Supplied(data) ==
    {f \in {"name", "gender", "age", "class_name", "major", "enrollment_date",
            "score"} : data[f].k # "absent"}

\* The supplied value SQLite stores as NULL: None or float('nan').
SuppliesNull(data) == \E f \in Supplied(data) : data[f].k \in {"none", "nan"}

\* The effect of a successful update_student(sid, data): the one record with
\* the id has exactly its supplied mutable fields overwritten, and every
\* other record is as it was.
UpdateApplied(sid, data) ==
    /\ Len(students') = Len(students)
    /\ \A i \in 1..Len(students) :
        IF students[i].student_id = sid
            THEN Overwritten(i, Supplied(data), data)
            ELSE students'[i] = students[i]

C6_Delete ==
    [][last'.op = "delete_student" =>
        IF Holding(students, last'.sid) = {}
            THEN ~last'.ok /\ last'.msg = "not found" /\ students' = students
            ELSE /\ last'.ok
                 /\ get_student(students', last'.sid) = NoData
                 /\ get_count(students') = get_count(students) - 1
                 /\ \A i \in 1..Len(students) :
                        students[i].student_id # last'.sid
                            => \E j \in 1..Len(students') :
                                    students'[j] = students[i]
      ]_vars

\* C6 witness: a successful delete_student that left another record stored.
C6_Witness ==
    /\ last.op = "delete_student" /\ last.ok
    /\ Len(students) = 1
    /\ students[1].student_id # last.sid

\* ------------------------------------------------------ search properties

\* The last call was search_students.
Searched == last.op = "search_students"

\* The stored records, as get_student would return them.
Records == {RowDict(students[i]) : i \in 1..Len(students)}

\* The keyword, read as a pattern, matches a part of the name: the
\* characters of the keyword other than '%' sit at increasing positions of
\* the name, neighbours in the keyword at neighbouring positions, '_' on any
\* character and every other character on itself or on the same ASCII
\* letter of the other case.
KeywordMatches(keyword, name) ==
    LET lits == {i \in 1..Len(keyword) : keyword[i] # "%"}
    IN  \E pos \in [lits -> 1..Len(name)] :
            \A i \in lits :
                /\ \/ keyword[i] = "_"
                   \/ ToLower(keyword[i]) = ToLower(name[pos[i]])
                /\ \A j \in lits : i < j => pos[i] < pos[j]
                /\ (i + 1) \in lits => pos[i + 1] = pos[i] + 1

\* The keyword occurs in the name, character for character.
KeywordOccurs(keyword, name) ==
    \E p \in 0..(Len(name) - Len(keyword)) :
        \A i \in 1..Len(keyword) : name[p + i] = keyword[i]

ScoreWithin(rec, q) ==
    /\ IsNumber(rec.score)
    /\ q.min_score <= rec.score.n
    /\ rec.score.n <= q.max_score

\* The record satisfies every active predicate of the query.
Satisfies(rec, q) ==
    /\ Len(q.keyword) > 0 => KeywordMatches(q.keyword, rec.name.s)
    /\ Len(q.class_name) > 0 => rec.class_name = Str(q.class_name)
    /\ Len(q.major) > 0 => rec.major = Str(q.major)
    /\ ScoreWithin(rec, q)

PageLengths(q) == {Len(r.students) : r \in search_students(students, q)}

\* The sums of the lengths of the pages at offset, offset + limit, ... up
\* to the first empty page.
RECURSIVE PageSums(_, _)
PageSums(q, offset) ==
    UNION {IF n = 0 THEN {0}
           ELSE {n + s : s \in PageSums(q, offset + q.limit)} :
           n \in PageLengths([q EXCEPT !.offset = offset])}

KeywordOnly ==
    /\ Searched
    /\ Len(last.q.keyword) > 0
    /\ Len(last.q.class_name) = 0
    /\ Len(last.q.major) = 0
    /\ last.q.offset = 0
    /\ last.q.limit >= Len(students)

InOrder(a, b, q) ==
    IF q.order_desc THEN SqlCmp(b[q.order_by], a[q.order_by]) <= 0
    ELSE SqlCmp(a[q.order_by], b[q.order_by]) <= 0

Min(a, b) == IF a < b THEN a ELSE b

FieldValues(f) ==
    CASE f = "student_id" ->
            {Absent, None, Str(<<>>), IntV(202401001), IntV(0), Str(SidShort),
             Str(Sid2), Str(Sid1 \o <<"LF">>),
             Str(<<"2", "0", "2", "4", "0", "1", "0", "0", "u0661">>),
             Str(<<"2", "0", "2", "4", "9", "9", "0", "0", "1">>),
             Str(<<"2", "0", "2", "4", "0", "5", "0", "0", "0">>),
             Str(<<"2", "0", "2", "4", "0", "5", "9", "9", "9">>),
             Str(<<"2", "0", "2", "3", "0", "1", "0", "0", "1">>),
             Str(<<"2", "0", "2", "4", "0", "1", "0", "0", "x">>),
             Str(<<"2", "0", "2", "4", "0", "1", "0", "0", "1", "1">>),
             Str(<<"2", "0", "2", "4", "0", "1", "0", "0", "1", " ">>)}
      [] f = "name" ->
            {Absent, None, Str(<<>>), IntV(12), Str(<<"a">>), Str(<<"a", "%">>),
             Str(<<"u5f20", "u00b7", "A">>)}
      [] f = "age" ->
            {Absent, None, IntV(0), IntV(1), IntV(100), IntV(101),
             FloatV(20), Str(<<"2", "0">>)}
      [] f = "score" ->
            {Absent, None, Str(<<>>), IntV(0), FloatV(100), FloatV(101),
             IntV(-1), NaN, Str(<<"8", "5">>), Str(<<"a">>)}
      [] f = "enrollment_date" ->
            {Absent, None, Str(<<>>), IntV(20240901),
             Str(<<"2", "0", "2", "4", "-", "1", "3", "-", "0", "1">>),
             Str(<<"2", "0", "2", "4", "-", "9", "-", "1">>)}
      [] f = "gender" ->
            {Absent, None, Str(<<>>), Str(GENDER_OPTIONS[2]), Str(<<"x">>)}
      [] f = "class_name" ->
            {Absent, None, Str(<<>>), Str(Class5), Str(<<"X">>)}
      [] f = "major" ->
            {Absent, None, Str(<<>>), Str(MajorAI), Str(<<"X">>), IntV(5)}

\* The records that differ from a valid record in one field.
OneOff ==
    UNION {{[BaseRecord(Sid1) EXCEPT ![f] = v] : v \in FieldValues(f)} :
           f \in Range(Fields)}

\* The candidate records: a valid record with up to two fields replaced.
Candidates ==
    {BaseRecord(Sid1)} \cup OneOff
    \cup UNION {{[r EXCEPT ![f] = v] : v \in FieldValues(f)} :
                r \in OneOff, f \in {"name", "score", "class_name", "major"}}

\* A candidate record is at hand and no validator has run on it yet.
InitValidate ==
    /\ students = <<>>
    /\ sqlite_sequence = 0
    /\ last \in {[NoLast EXCEPT !.op = "candidate", !.data = d] : d \in Candidates}
    /\ call = NoCall
    /\ NoGeneration

\* The result of a validator on the candidate, kept with the candidate.
Validated(op, r) ==
    /\ last.op = "candidate"
    /\ UNCHANGED <<students, sqlite_sequence>>
    /\ UNCHANGED <<call, appVars>>
    /\ last' = [last EXCEPT !.op = op, !.ok = r.ok, !.msg = r.msg, !.exc = r.exc]

ValidateStudentId == Validated("validate_student_id",
                               validate_student_id(last.data.student_id))

ValidateName == Validated("validate_name", validate_name(last.data.name))

ValidateAge == Validated("validate_age", validate_age(last.data.age))

ValidateScore == Validated("validate_score", validate_score(last.data.score))

ValidateDate == Validated("validate_date",
                          validate_date(last.data.enrollment_date))

ValidateStudentData == Validated("validate_student_data",
                                 validate_student_data(last.data))

AddCandidate == last.op = "candidate" /\ AddStudent(last.data)

NextValidate ==
    \/ ValidateStudentId
    \/ ValidateName
    \/ ValidateAge
    \/ ValidateScore
    \/ ValidateDate
    \/ ValidateStudentData
    \/ AddCandidate

SpecValidate == InitValidate /\ [][NextValidate]_vars

\* Every field validator passes on its own field of the record.
FieldValidatorsPass(data) ==
    /\ validate_student_id(data.student_id).ok
    /\ validate_name(data.name).ok
    /\ validate_age(data.age).ok
    /\ validate_score(data.score).ok
    /\ validate_date(data.enrollment_date).ok
    /\ InTexts(data.gender, GENDER_OPTIONS)
    /\ InTexts(data.class_name, CLASS_LIST)

\* The field is in the record and is neither None nor ''.
Given(v) == v.k \notin {"absent", "none"} /\ v # Str(<<>>)

ValidatedData == last.op = "validate_student_data"

\* C12 as stated: validate_student_data passes exactly when the seven field
\* validators pass on their fields.
C12_ConjunctionAsStated ==
    ValidatedData => (last.ok <=> FieldValidatorsPass(last.data))

\* C12: validate_student_data passes exactly when the seven field
\* validators pass on their fields and the record has a major that is
\* neither None nor ''.
C12_Conjunction ==
    ValidatedData =>
        (last.ok <=> (FieldValidatorsPass(last.data) /\ Given(last.data.major)))

\* A record that only the check of the class rejects.
C12_Witness ==
    /\ ValidatedData
    /\ ~last.ok
    /\ last.data.class_name = Str(<<"X">>)
    /\ Given(last.data.major)
    /\ FieldValidatorsPass([last.data EXCEPT !.class_name = Str(Class1)])

\* The identifier is a text of exactly nine ASCII digits: 2024, a known
\* class code, a serial from 001 to 999.
WellFormedId(v) ==
    /\ v.k = "str"
    /\ Len(v.s) = 9
    /\ \A i \in 1..9 : v.s[i] \in AsciiDigits
    /\ SubSeq(v.s, 1, 4) = <<"2", "0", "2", "4">>
    /\ SubSeq(v.s, 5, 6) \in Range(CLASS_CODE_MAP)
    /\ DigitsValue(SubSeq(v.s, 7, 9)) \in 1..999

\* C13: validate_student_id passes exactly on the non-empty identifiers of
\* nine ASCII digits and nothing else that start with 2024, have a known
\* class code at digits 5-6 and a serial in [1,999] at digits 7-9; '12345'
\* fails with the length reason and '202499001' with the class code reason.
C13_StudentId ==
    last.op = "validate_student_id" =>
        /\ last.ok <=> WellFormedId(last.data.student_id)
        /\ last.data.student_id = Str(SidShort) => last.msg = "id not 9 digits"
        /\ last.data.student_id =
                Str(<<"2", "0", "2", "4", "9", "9", "0", "0", "1">>)
            => last.msg = "id class code"

\* C14: no validator and no add_student call raises: whatever the type of
\* the value (text, integer, float, missing), the call returns a pair
\* (False, reason) or (True, '').
C14_NeverRaises ==
    last.op \in {"validate_student_id", "validate_name", "validate_age",
                 "validate_score", "validate_date", "validate_student_data",
                 "add_student"}
        => ~last.exc

\* C15: every stored record has a score in [0,100], an age in [1,100] and
\* a class_name of the fixed class list.
C15_StoredRanges ==
    \A i \in 1..Len(students) :
        /\ IsNumber(students[i].score)
        /\ 0 <= students[i].score.n /\ students[i].score.n <= 100
        /\ students[i].age.k = "int"
        /\ 1 <= students[i].age.n /\ students[i].age.n <= 100
        /\ students[i].class_name.k = "str"
        /\ students[i].class_name.s \in Range(CLASS_LIST)

\* The call turned rows into after and record i of its list has the
\* student_id of a row of rows or of an earlier record of the list that the
\* call inserted.
DuplicateInBatch(rows, after, list, i) ==
    \/ Holding(rows, list[i].student_id) # {}
    \/ \E j \in 1..(i - 1) :
        /\ list[j].student_id = list[i].student_id
        /\ \E k \in (Len(rows) + 1)..Len(after) :
            RowDict(after[k]) = StoredDict(list[j])

\* C16: batch_insert counts every record whose student_id is stored or
\* came earlier in the batch as a failure and persists every other record;
\* success_count + fail_count is the length of the list and the table
\* grows by success_count records.
C16_BatchIndependent ==
    [][last'.op = "batch_insert" =>
        LET list == last'.batch
            dups == {i \in 1..Len(list) :
                        DuplicateInBatch(students, students', list, i)}
        IN  /\ last'.success + last'.fail = Len(list)
            /\ last'.fail = Cardinality(dups)
            /\ Len(students') = Len(students) + last'.success
            /\ \A i \in (1..Len(list)) \ dups :
                \E k \in (Len(students) + 1)..Len(students') :
                    RowDict(students'[k]) = StoredDict(list[i])]_vars

\* ---------------------------------------------------------- storage faults
\* The database raises a sqlite3 error that is no IntegrityError (the file
\* cannot be opened, is locked, the disk is full) inside the connection
\* scope of a call: _get_connection rolls back, closes and re-raises, and
\* the except branch of the operation returns.

\* add_student validates before it opens the connection.
add_student_fault(rows, seq, student_data) ==
    IF ~validate_student_data(student_data).ok
        THEN add_student(rows, seq, student_data)
    ELSE [rows |-> rows, seq |-> seq, ok |-> FALSE, msg |-> "add failed",
          exc |-> FALSE]

update_student_fault(rows, student_id, student_data) ==
    [rows |-> rows, ok |-> FALSE, msg |-> "update failed"]

delete_student_fault(rows, student_id) ==
    [rows |-> rows, ok |-> FALSE, msg |-> "delete failed"]

\* The error is raised by the INSERT of record k, or by conn.commit() when
\* k is one past the list: the counters stand as the records before k left
\* them.
batch_insert_fault(rows, seq, list, k) ==
    LET b == BatchLoop(rows, seq, SubSeq(list, 1, k - 1), 1, 0, 0)
    IN  [rows |-> rows, seq |-> seq, success |-> b.success, fail |-> b.fail]

AddStudentFault(student_data) ==
    LET r == add_student_fault(students, sqlite_sequence, student_data)
    IN  /\ students' = r.rows
        /\ sqlite_sequence' = r.seq
        /\ UNCHANGED <<call, appVars>>
        /\ last' = [NoLast EXCEPT !.op = "add_student", !.data = student_data,
                                  !.ok = r.ok, !.msg = r.msg, !.exc = r.exc,
                                  !.fault = TRUE]

UpdateStudentFault(student_id, student_data) ==
    LET r == update_student_fault(students, student_id, student_data)
    IN  /\ students' = r.rows
        /\ UNCHANGED sqlite_sequence
        /\ UNCHANGED <<call, appVars>>
        /\ last' = [NoLast EXCEPT !.op = "update_student", !.sid = student_id,
                                  !.data = student_data, !.ok = r.ok,
                                  !.msg = r.msg, !.fault = TRUE]

DeleteStudentFault(student_id) ==
    LET r == delete_student_fault(students, student_id)
    IN  /\ students' = r.rows
        /\ UNCHANGED sqlite_sequence
        /\ UNCHANGED <<call, appVars>>
        /\ last' = [NoLast EXCEPT !.op = "delete_student", !.sid = student_id,
                                  !.ok = r.ok, !.msg = r.msg, !.fault = TRUE]

BatchInsertFault(list, k) ==
    LET r == batch_insert_fault(students, sqlite_sequence, list, k)
    IN  /\ students' = r.rows
        /\ sqlite_sequence' = r.seq
        /\ UNCHANGED <<call, appVars>>
        /\ last' = [NoLast EXCEPT !.op = "batch_insert", !.batch = list,
                                  !.success = r.success, !.fail = r.fail,
                                  !.fault = TRUE]

NextFault ==
    \/ \E l \in BatchInputs : LoadStudents(l)
    \/ \E d \in AddInputs : AddStudentFault(d)
    \/ \E sid \in IdInputs, d \in UpdateInputs : UpdateStudentFault(sid, d)
    \/ \E sid \in IdInputs : DeleteStudentFault(sid)
    \/ \E l \in BatchInputs : \E k \in 1..(Len(l) + 1) : BatchInsertFault(l, k)

SpecFault == Init /\ [][NextFault]_vars

\* C17: a call in which a storage fault occurs leaves the table as it was
\* and says so: add_student, update_student and delete_student return a
\* failure, batch_insert returns as success count the number of records it
\* persisted.
C17_FaultAtomic ==
    [][last'.fault =>
        /\ students' = students
        /\ last'.op \in {"add_student", "update_student", "delete_student"}
            => ~last'.ok
        /\ last'.op = "batch_insert"
            => last'.success = Len(students') - Len(students)]_vars

\* ------------------------------------------------------- connection scope
\* A call step by step through "with self._get_connection() as conn":
\* call.pc is the position of the call, call.conn the connection it made
\* ("none" before sqlite3.connect returns, then "open", then "closed"),
\* call.exit the way the body of the with block was left.

Operations ==
    {"init_database", "is_empty", "get_count", "add_student",
     "update_student", "delete_student", "get_student", "search_students",
     "get_all_students", "get_class_statistics", "get_major_statistics",
     "get_score_distribution", "get_gender_statistics", "batch_insert"}

\* The operations with a return inside the with block ahead of the last one.
EarlyReturnOps == {"add_student", "update_student", "delete_student"}

\* Fault: the finally branch left out.
CloseIfOpen_Never(conn) == conn

\* finally: if conn: conn.close()
CloseIfOpen(conn) == IF conn = "none" THEN conn ELSE "closed"

\* The operation is called and enters its with statement.
BeginCall(op) ==
    /\ call.pc = "idle"
    /\ call' = [op |-> op, pc |-> "connect", conn |-> "none", exit |-> ""]
    /\ UNCHANGED <<students, sqlite_sequence, last, appVars>>

\* add_student returns the failure of the validation without entering the
\* with statement.
RejectBeforeConnect ==
    /\ call.pc = "idle"
    /\ call' = [op |-> "add_student", pc |-> "idle", conn |-> "none",
                exit |-> "invalid"]
    /\ UNCHANGED <<students, sqlite_sequence, last, appVars>>

\* conn = sqlite3.connect(...): the connection, or a sqlite3.Error with
\* conn still None.
Connect ==
    /\ call.pc = "connect"
    /\ \/ call' = [call EXCEPT !.pc = "body", !.conn = "open"]
       \/ call' = [call EXCEPT !.pc = "except", !.exit = "connect error"]
    /\ UNCHANGED <<students, sqlite_sequence, last, appVars>>

\* The body of the with block ends: by its last return, by an earlier
\* return, by a sqlite3.Error or by another exception.
LeaveBody(exit) ==
    /\ call.pc = "body"
    /\ exit = "early return" => call.op \in EarlyReturnOps
    /\ call' = [call EXCEPT !.exit = exit,
                            !.pc = IF exit = "sqlite error" THEN "except"
                                   ELSE "finally"]
    /\ UNCHANGED <<students, sqlite_sequence, last, appVars>>

\* except sqlite3.Error: rollback if there is a connection, raise.
RollbackAndRaise ==
    /\ call.pc = "except"
    /\ call' = [call EXCEPT !.pc = "finally"]
    /\ UNCHANGED <<students, sqlite_sequence, last, appVars>>

\* finally: the connection is closed and the operation returns.
CloseAndReturn ==
    /\ call.pc = "finally"
    /\ call' = [call EXCEPT !.pc = "idle", !.conn = CloseIfOpen(call.conn)]
    /\ UNCHANGED <<students, sqlite_sequence, last, appVars>>

NextConnection ==
    \/ \E op \in Operations : BeginCall(op)
    \/ RejectBeforeConnect
    \/ Connect
    \/ \E exit \in {"return", "early return", "sqlite error", "exception"} :
        LeaveBody(exit)
    \/ RollbackAndRaise
    \/ CloseAndReturn

SpecConnection == Init /\ [][NextConnection]_vars

\* C18: a call starts without a connection, and when no call is in
\* progress no connection is open, whichever way the call ended.
C18_ConnectionClosed ==
    /\ call.pc = "connect" => call.conn = "none"
    /\ call.pc = "idle" => call.conn # "open"

\* delete_student returned from inside the with block (student not found)
\* and its connection is closed.
C18_Witness ==
    /\ call.pc = "idle"
    /\ call.op = "delete_student"
    /\ call.exit = "early return"
    /\ call.conn = "closed"

\* -------------------------------------------------------------- statistics

\* The largest number of bins asked for.
MaxBins == 11

\* bin_size = 100 / bins and i * bin_size are IEEE-754 doubles.  The sign
\* of the rounding error of i * bin_size where 100 * i / bins is a whole
\* number: for bins up to 21 the product is exact except 11 * (100 / 11),
\* which is 100.00000000000001.
BoundaryExcess(bins, i) == IF bins = 11 /\ i = 11 THEN 1 ELSE 0

\* score >= i * bin_size and score < i * bin_size for a stored score; a
\* score stored as text is above every number.
AtLeastBoundary(score, bins, i) ==
    IF ~IsNumber(score) THEN TRUE
    ELSE \/ score.n * bins > 100 * i
         \/ score.n * bins = 100 * i /\ BoundaryExcess(bins, i) <= 0

BelowBoundary(score, bins, i) ==
    IF ~IsNumber(score) THEN FALSE
    ELSE \/ score.n * bins < 100 * i
         \/ score.n * bins = 100 * i /\ BoundaryExcess(bins, i) > 0

\* SELECT COUNT(*) FROM students WHERE score >= ? AND score < ? for the bin
\* from (i - 1) * bin_size to i * bin_size.
BinCount(rows, bins, i) ==
    Cardinality({j \in 1..Len(rows) :
                    /\ AtLeastBoundary(rows[j].score, bins, i - 1)
                    /\ BelowBoundary(rows[j].score, bins, i)})

\* if perfect_count > 0: distribution[-1]['count'] += perfect_count; with
\* no bin the index is out of range and the call returns [].
AddPerfect(distribution, bins, perfect_count) ==
    IF perfect_count = 0 THEN distribution
    ELSE IF Len(distribution) = 0 THEN <<>>
    ELSE [distribution EXCEPT ![bins].count = @ + perfect_count]

\* The list of bins with their counts; bin i runs from lo * bin_size to
\* hi * bin_size.  bins = 0 divides by zero and the call returns [].
get_score_distribution(rows, bins) ==
    IF bins = 0 THEN <<>>
    ELSE AddPerfect([i \in 1..bins |->
                        [lo |-> i - 1, hi |-> i,
                         count |-> BinCount(rows, bins, i)]],
                    bins,
                    Cardinality({j \in 1..Len(rows) :
                                    SqlCmp(rows[j].score, IntV(100)) = 0}))

\* The number SQLite reads from the front of a text: its leading digits, 0
\* when there is none.
RECURSIVE LeadingDigits(_)
LeadingDigits(s) ==
    IF Len(s) = 0 \/ s[1] \notin AsciiDigits THEN <<>>
    ELSE <<s[1]>> \o LeadingDigits(Tail(s))

\* The value SUM and AVG take a stored score for.
SqlNumericValue(v) == IF IsNumber(v) THEN v.n ELSE DigitsValue(LeadingDigits(v.s))

RECURSIVE SqlSum(_, _)
SqlSum(rows, js) ==
    IF js = {} THEN 0
    ELSE LET j == CHOOSE x \in js : TRUE
         IN  SqlNumericValue(rows[j].score) + SqlSum(rows, js \ {j})

\* One row of GROUP BY major: COUNT(*), AVG(score) as the fraction
\* num / den, MIN(score) and MAX(score) in the order of SQLite's values.
MajorGroup(rows, major) ==
    LET js == {j \in 1..Len(rows) : rows[j].major = major}
    IN  [major |-> major,
         student_count |-> Cardinality(js),
         avg_score |-> [num |-> SqlSum(rows, js), den |-> Cardinality(js)],
         min_score |-> (CHOOSE v \in {rows[j].score : j \in js} :
                            \A j \in js : SqlCmp(v, rows[j].score) <= 0),
         max_score |-> (CHOOSE v \in {rows[j].score : j \in js} :
                            \A j \in js : SqlCmp(v, rows[j].score) >= 0)]

\* a.avg_score >= b.avg_score
AvgAtLeast(a, b) ==
    a.avg_score.num * b.avg_score.den >= b.avg_score.num * a.avg_score.den

\* ORDER BY avg_score DESC
OrderedByAvg(seq) ==
    \A i \in 1..(Len(seq) - 1) : AvgAtLeast(seq[i], seq[i + 1])

\* The lists get_major_statistics can return: the groups in an order of
\* descending avg_score, groups of equal avg_score in any order.
get_major_statistics(rows) ==
    LET groups == {MajorGroup(rows, m) : m \in {rows[j].major : j \in 1..Len(rows)}}
        n == Cardinality(groups)
    IN  {seq \in [1..n -> groups] :
            /\ \A i, j \in 1..n : i # j => seq[i] # seq[j]
            /\ OrderedByAvg(seq)}

GetMajorStatistics ==
    \E r \in get_major_statistics(students) :
        /\ UNCHANGED <<students, sqlite_sequence, call, appVars>>
        /\ last' = [NoLast EXCEPT !.op = "get_major_statistics", !.result = r]

GetScoreDistribution(bins) ==
    /\ UNCHANGED <<students, sqlite_sequence, call, appVars>>
    /\ last' = [NoLast EXCEPT !.op = "get_score_distribution", !.bins = bins,
                              !.result = get_score_distribution(students, bins)]

NextStatistics ==
    \/ \E l \in LoadInputs : LoadStudents(l)
    \/ \E bins \in 0..MaxBins : GetScoreDistribution(bins)
    \/ GetMajorStatistics

SpecStatistics == Init /\ [][NextStatistics]_vars

\* The bin a score in [0,100] belongs to when the range is cut into bins
\* equal parts, each with its lower and without its upper end, 100 in the
\* last.
BinOf(n, bins) == IF n = 100 THEN bins ELSE ((n * bins) \div 100) + 1

ScoresInRange ==
    \A j \in 1..Len(students) :
        /\ IsNumber(students[j].score)
        /\ 0 <= students[j].score.n
        /\ students[j].score.n <= 100

\* C19: when every stored score lies in [0,100], each bin of
\* get_score_distribution(bins) counts the records whose score falls into
\* it and no other, a score of 100 falling into the last bin, so that the
\* counts add up to the number of records.
C19_HistogramComplete ==
    (last.op = "get_score_distribution" /\ last.bins >= 1 /\ ScoresInRange) =>
        /\ Len(last.result) = last.bins
        /\ \A i \in 1..Len(last.result) :
            last.result[i].count =
                Cardinality({j \in 1..Len(students) :
                                BinOf(students[j].score.n, last.bins) = i})

\* The stored records of a major.
OfMajor(major) == {j \in 1..Len(students) : students[j].major = major}

RECURSIVE SumOfScores(_)
SumOfScores(js) ==
    IF js = {} THEN 0
    ELSE LET j == CHOOSE x \in js : TRUE
         IN  students[j].score.n + SumOfScores(js \ {j})

\* C20: get_major_statistics returns one row for each major in the store
\* and no other row; the row carries the number of records of the major,
\* the arithmetic mean, the least and the greatest of their scores, and the
\* rows come in descending order of the mean.
C20_MajorStatistics ==
    last.op = "get_major_statistics" =>
        LET res == last.result
        IN  /\ {res[i].major : i \in 1..Len(res)}
                = {students[j].major : j \in 1..Len(students)}
            /\ \A i, k \in 1..Len(res) : i # k => res[i].major # res[k].major
            /\ \A i \in 1..Len(res) :
                LET js == OfMajor(res[i].major)
                IN  /\ res[i].student_count = Cardinality(js)
                    /\ \A j \in js : IsNumber(students[j].score)
                    /\ res[i].avg_score.num * Cardinality(js)
                        = SumOfScores(js) * res[i].avg_score.den
                    /\ IsNumber(res[i].min_score)
                    /\ IsNumber(res[i].max_score)
                    /\ \A j \in js :
                        /\ res[i].min_score.n <= students[j].score.n
                        /\ students[j].score.n <= res[i].max_score.n
                    /\ \E j \in js : students[j].score.n = res[i].min_score.n
                    /\ \E j \in js : students[j].score.n = res[i].max_score.n
            /\ \A i \in 1..(Len(res) - 1) :
                res[i].avg_score.num * res[i + 1].avg_score.den
                    >= res[i + 1].avg_score.num * res[i].avg_score.den

\* ------------------------------------------------------ get_class_statistics
\* SELECT class_name, COUNT(*) ... GROUP BY class_name ORDER BY class_name:
\* one row for each value the column holds, in the order of SqlCmp.
RECURSIVE SqlOrderValues(_)
SqlOrderValues(values) ==
    IF values = {} THEN <<>>
    ELSE LET first == CHOOSE v \in values : \A w \in values : SqlCmp(v, w) <= 0
         IN  <<first>> \o SqlOrderValues(values \ {first})

get_class_statistics(rows) ==
    LET names == SqlOrderValues({rows[i].class_name : i \in 1..Len(rows)})
    IN  [k \in 1..Len(names) |->
            [class_name |-> names[k],
             count |-> Cardinality({i \in 1..Len(rows) :
                                      rows[i].class_name = names[k]})]]

RECURSIVE SumOfCounts(_)
SumOfCounts(stats) ==
    IF stats = <<>> THEN 0 ELSE stats[1].count + SumOfCounts(Tail(stats))

\* The classes of the fixed class list that have a stored record.
ClassesWithRecords ==
    {Str(c) : c \in {d \in Range(CLASS_LIST) :
                        \E i \in 1..Len(students) :
                            students[i].class_name = Str(d)}}

\* C21: in every reachable state of the table get_class_statistics returns
\* one row for each class of the fixed class list that has a stored record
\* and no other row, each with the number of records of that class, in the
\* order of the class names, and the counts add up to get_count().
C21_ClassStatistics ==
    LET stats == get_class_statistics(students)
    IN  /\ {stats[k].class_name : k \in 1..Len(stats)} = ClassesWithRecords
        /\ Len(stats) = Cardinality(ClassesWithRecords)
        /\ \A k \in 1..Len(stats) :
              stats[k].count =
                  Cardinality({i \in 1..Len(students) :
                                 students[i].class_name = stats[k].class_name})
        /\ \A k \in 1..Len(stats), l \in 1..Len(stats) :
              k < l => SqlCmp(stats[k].class_name, stats[l].class_name) < 0
        /\ SumOfCounts(stats) = get_count(students)

\* ------------------------------------------------------------ DataGenerator
\* A generator is its class_counters, indexed by the position of the class
\* in CLASS_LIST.  The values drawn from random, numpy and faker are a
\* function of the position in the random stream, written draw.

\* The longest list the model shuffles in every way.
MaxShuffle == 3

\* The largest count handed to generate_students and generate_sample_data.
MaxCount == 7

\* The positions in the random stream at which a call starts.
Draws == 0..1

\* The counts of the calls whose list the model does not keep.
ManyCounts == {4990}

\* The calls of generate_students on one generator.
MaxCalls == 2

\* fake.name(): names of the zh_CN provider.
Names ==
    <<<<"u5f20", "u4e00">>, <<"u5f20", "u4e8c">>, <<"u5f20", "u4e00", "u4e8c">>>>

\* strftime('%Y-%m-%d') of days between 2021-01-01 and 2024-12-31.
EnrollmentDates ==
    <<<<"2", "0", "2", "1", "-", "0", "1", "-", "0", "1">>,
      Date1,
      <<"2", "0", "2", "4", "-", "1", "2", "-", "3", "1">>>>

\* Values of np.random.normal(75, 15).
NormalDraws == <<-5, 60, 75, 100, 130>>

\* f"{serial:03d}": the decimal digits, padded with zeros to three.
SerialText(serial) ==
    IF serial < 10 THEN <<"0", "0">> \o NatText(serial)
    ELSE IF serial < 100 THEN <<"0">> \o NatText(serial)
    ELSE NatText(serial)

generate_student_id(counters, i) ==
    [id |-> <<"2", "0", "2", "4">> \o CLASS_CODE_MAP[i]
              \o SerialText(counters[i] + 1),
     counters |-> [counters EXCEPT ![i] = @ + 1]]

generate_gender(draw) == GENDER_OPTIONS[1 + (draw % Len(GENDER_OPTIONS))]

generate_age(draw) == 18 + (draw % 8)

\* max(0, min(100, score)), rounded.
generate_score(draw) ==
    LET score == NormalDraws[1 + (draw % Len(NormalDraws))]
    IN  IF score < 0 THEN 0 ELSE IF score > 100 THEN 100 ELSE score

generate_student(counters, i, draw) ==
    LET g == generate_student_id(counters, i)
    IN  [student |->
            [student_id |-> Str(g.id),
             name |-> Str(Names[1 + (draw % Len(Names))]),
             gender |-> Str(generate_gender(draw)),
             age |-> IntV(generate_age(draw)),
             class_name |-> Str(CLASS_LIST[i]),
             major |-> Str(MAJOR_LIST[i]),
             enrollment_date |->
                 Str(EnrollmentDates[1 + (draw % Len(EnrollmentDates))]),
             score |-> FloatV(generate_score(draw))],
         counters |-> g.counters]

\* Fault: the remainder is given to no class.
ClassCount_NoRemainder(count, i) == count \div Len(CLASS_LIST)

\* class_count of the class at position i (1-based): base_count, and one
\* more for the first remainder classes.
ClassCount(count, i) ==
    count \div Len(CLASS_LIST)
        + (IF i - 1 < count % Len(CLASS_LIST) THEN 1 ELSE 0)

\* The two loops of generate_students from class i on, with left records
\* of class i still to generate: the list in the order of generation and
\* the counters.
RECURSIVE GenerateLoop(_, _, _, _, _, _)
GenerateLoop(counters, count, draw, i, left, list) ==
    IF left > 0
        THEN CHOOSE r \in
                 {GenerateLoop(g.counters, count, draw, i, left - 1,
                               Append(list, g.student)) :
                     g \in {generate_student(counters, i, draw + Len(list))}} :
                 TRUE
    ELSE IF i < Len(CLASS_LIST)
        THEN GenerateLoop(counters, count, draw, i + 1,
                          ClassCount(count, i + 1), list)
    ELSE [students |-> list, counters |-> counters]

\* The orders random.shuffle can leave a list of n elements in: every
\* order of a short list, three orders of a longer one.
Shuffles(n) ==
    IF n <= MaxShuffle THEN Permutations(1..n)
    ELSE {[k \in 1..n |-> k], [k \in 1..n |-> n + 1 - k],
          [k \in 1..n |-> 1 + (k % n)]}

\* internal_progress / progress_callback(current, total).
progress_callback_Swapped(current, total) == <<total, current>>

progress_callback(current, total) == <<current, total>>

\* The results generate_students can return: the shuffled list, the list
\* as generated, the counters, and the calls of the progress callback.
generate_students(counters, count, draw) ==
    LET g == GenerateLoop(counters, count, draw, 1, ClassCount(count, 1), <<>>)
    IN  {[students |-> [k \in 1..Len(g.students) |-> g.students[p[k]]],
          generated |-> g.students,
          counters |-> g.counters,
          progress |-> [k \in 1..Len(g.students) |->
                           progress_callback(k, count)]] :
            p \in Shuffles(Len(g.students))}

NewGenerator ==
    /\ class_counters' = NoCounters
    /\ progress' = <<>>
    /\ last' = [NoLast EXCEPT !.op = "DataGenerator"]
    /\ UNCHANGED <<students, sqlite_sequence, call, app, threads, events>>

GenerateStudents(count, draw) ==
    /\ last.calls < MaxCalls
    /\ \E r \in generate_students(class_counters, count, draw) :
        /\ class_counters' = r.counters
        /\ progress' = r.progress
        /\ last' = [NoLast EXCEPT !.op = "generate_students",
                                  !.count = count, !.students = r.students,
                                  !.generated = r.generated,
                                  !.counters = class_counters,
                                  !.calls = last.calls + 1]
    /\ UNCHANGED <<students, sqlite_sequence, call, app, threads, events>>

\* A call of generate_students(count) whose list is not kept: each class
\* counter has advanced by the class_count of its class.
GenerateMany(count) ==
    /\ last.calls = 0
    /\ class_counters' =
           [i \in DOMAIN CLASS_LIST |-> class_counters[i] + ClassCount(count, i)]
    /\ progress' = <<>>
    /\ last' = [NoLast EXCEPT !.op = "generate_students (list dropped)",
                              !.count = count, !.counters = class_counters,
                              !.calls = 1]
    /\ UNCHANGED <<students, sqlite_sequence, call, app, threads, events>>

reset_counters ==
    /\ class_counters # NoCounters
    /\ class_counters' = NoCounters
    /\ progress' = <<>>
    /\ last' = [NoLast EXCEPT !.op = "reset_counters", !.calls = last.calls]
    /\ UNCHANGED <<students, sqlite_sequence, call, app, threads, events>>

NextGenerator ==
    \/ NewGenerator
    \/ \E count \in 0..MaxCount, draw \in Draws : GenerateStudents(count, draw)
    \/ \E count \in ManyCounts : GenerateMany(count)
    \/ reset_counters

SpecGenerator == Init /\ [][NextGenerator]_vars

\* The serial in an identifier: the digits after 2024 and the class code.
SerialOf(student_id) == DigitsValue(SubSeq(student_id.s, 7, Len(student_id.s)))

OfClass(list, i) == {k \in 1..Len(list) : list[k].class_name = Str(CLASS_LIST[i])}

Occurrences(list, rec) == Cardinality({k \in 1..Len(list) : list[k] = rec})

\* C22: generate_students(count) on a fresh generator returns count
\* records; the class at position i of the list (from 0) receives
\* count // 5 records and one more iff i < count mod 5; the serials of a
\* class are 1, 2, ..., k in the order of generation; the shuffle changes
\* the order only.
C22_Distribution ==
    (last.op = "generate_students" /\ last.counters = NoCounters) =>
        /\ Len(last.students) = last.count
        /\ \A i \in DOMAIN CLASS_LIST :
              /\ Cardinality(OfClass(last.students, i)) =
                     last.count \div Len(CLASS_LIST)
                         + (IF i - 1 < last.count % Len(CLASS_LIST)
                                THEN 1 ELSE 0)
              /\ \A k \in OfClass(last.generated, i) :
                     SerialOf(last.generated[k].student_id) =
                         Cardinality({j \in OfClass(last.generated, i) : j <= k})
        /\ Len(last.students) = Len(last.generated)
        /\ \A k \in 1..Len(last.generated) :
              Occurrences(last.students, last.generated[k]) =
                  Occurrences(last.generated, last.generated[k])

\* A fresh generator was asked for seven records, two of the first class,
\* and the shuffle moved the first record generated.
C22_Witness ==
    /\ last.op = "generate_students"
    /\ last.counters = NoCounters
    /\ last.count = 7
    /\ Cardinality(OfClass(last.students, 1)) = 2
    /\ Cardinality(OfClass(last.students, 5)) = 1
    /\ last.students[1] # last.generated[1]

\* C23: every record generate_students returns, whatever the count and the
\* calls made before on the same generator, passes validate_student_data,
\* its student_id passes validate_student_id, and the identifiers of the
\* list are pairwise distinct.
C23_GeneratedValid ==
    last.op = "generate_students" =>
        /\ \A k \in 1..Len(last.students) :
              /\ validate_student_data(last.students[k]).ok
              /\ validate_student_id(last.students[k].student_id).ok
        /\ \A k \in 1..Len(last.students), l \in 1..Len(last.students) :
              last.students[k].student_id = last.students[l].student_id
                  => k = l

\* ----------------------------------------------------- generate_sample_data
\* DataGenerator(seed=42): the position in the random stream the seed sets.
SampleSeed == 42

\* The results generate_sample_data(db_manager, count, progress_callback)
\* can have: the table batch_insert leaves, the pair it returns, and the
\* calls of progress_callback in their order.
generate_sample_data(rows, seq, count) ==
    {LET b == batch_insert(rows, seq, g.students)
     IN  [rows |-> b.rows, seq |-> b.seq, success |-> b.success,
          fail |-> b.fail,
          progress |-> g.progress
                         \o <<progress_callback(count, count),
                              progress_callback(b.success, count)>>] :
        g \in generate_students(NoCounters, count, SampleSeed)}

GenerateSampleData(count) ==
    /\ sqlite_sequence <= MaxCount
    /\ \E r \in generate_sample_data(students, sqlite_sequence, count) :
        /\ students' = r.rows
        /\ sqlite_sequence' = r.seq
        /\ progress' = r.progress
        /\ last' = [NoLast EXCEPT !.op = "generate_sample_data",
                                  !.count = count, !.success = r.success,
                                  !.fail = r.fail]
    /\ UNCHANGED <<call, class_counters, app, threads, events>>

\* The counts handed to generate_sample_data.
SampleCounts == {0, 3, MaxCount}

NextSampleData ==
    \/ \E count \in SampleCounts : GenerateSampleData(count)
    \/ \E sid \in IdInputs : DeleteStudent(sid)

SpecSampleData == Init /\ [][NextSampleData]_vars

\* C24: generate_sample_data(db, count, cb) calls cb once for each record
\* generated, with 1, 2, ..., count and the total count, then once with
\* (count, count) before batch_insert, then once with (success_count,
\* count) after it: count + 2 calls, all made before the function returns.
C24_ProgressOrder ==
    last.op = "generate_sample_data" =>
        /\ Len(progress) = last.count + 2
        /\ \A k \in 1..last.count : progress[k] = <<k, last.count>>
        /\ progress[last.count + 1] = <<last.count, last.count>>
        /\ progress[last.count + 2] = <<last.success, last.count>>

\* Seven records were generated for a table that held three of them.
C24_Witness ==
    /\ last.op = "generate_sample_data"
    /\ last.count = 7
    /\ last.success = 4
    /\ Len(progress) = 9

\* The table holds every identifier a run of generate_sample_data(count)
\* generates.
HoldsRun(rows, count) ==
    \A i \in DOMAIN CLASS_LIST : \A n \in 1..ClassCount(count, i) :
        \E k \in 1..Len(rows) :
            rows[k].student_id =
                Str(<<"2", "0", "2", "4">> \o CLASS_CODE_MAP[i] \o SerialText(n))

\* C27: generate_sample_data(count) on a table that holds all the records
\* of an earlier run with the same count inserts nothing: it returns
\* (0, count) and the table is unchanged.
C27_RepeatedRun ==
    [][(last'.op = "generate_sample_data" /\ HoldsRun(students, last'.count))
          => /\ last'.success = 0
             /\ last'.fail = last'.count
             /\ students' = students]_vars

\* A run of seven records on a table holding the seven of an earlier run.
C27_Witness ==
    /\ last.op = "generate_sample_data"
    /\ last.count = 7
    /\ last.success = 0
    /\ last.fail = 7
    /\ Len(students) = 7

\* C29: in every reachable state of the table search_students with the
\* default filter arguments (no keyword, class or major, scores 0..100)
\* reports a total_count equal to get_count().
C29_UnfilteredTotal ==
    \A r \in search_students(students, DefaultQuery) :
        r.total_count = get_count(students)

\* ------------------------------------------------------- MainApp: paging

\* The count main.py passes to generate_sample_data (200 in the code).
GenerateCount == 2

\* The rowids the paging model lets AUTOINCREMENT hand out.
MaxPagingRowId == 3

\* max_page of _go_to_page, _go_to_last_page and _update_pagination.
max_page(a) ==
    IF (a.total_records + a.page_size - 1) \div a.page_size < 1 THEN 1
    ELSE (a.total_records + a.page_size - 1) \div a.page_size

\* The arguments _load_data passes to search_students.
LoadQuery(a) ==
    [keyword |-> a.filter_keyword, class_name |-> a.filter_class,
     major |-> a.filter_major, min_score |-> a.filter_min_score,
     max_score |-> a.filter_max_score, order_by |-> a.sort_column,
     order_desc |-> a.sort_desc, limit |-> a.page_size,
     offset |-> (a.current_page - 1) * a.page_size]

\* _update_pagination: first/previous are disabled on page 1, next/last on
\* the last page and past it.
_update_pagination(a) ==
    [a EXCEPT !.prev_btn = IF a.current_page <= 1 THEN "disabled" ELSE "normal",
              !.next_btn = IF a.current_page >= max_page(a) THEN "disabled"
                           ELSE "normal"]

\* _load_data: the page of current_page under the filters and the sort
\* order; total_records is the total of the search, the table holds the
\* student ids of the page, current_page is left as it was.
_load_data(a, rows) ==
    {_update_pagination(b) :
        b \in UNION {{[a EXCEPT !.total_records = r.total_count,
                                !.tree = [k \in 1..Len(r.students) |->
                                              r.students[k].student_id]] :
                        r \in search_students(rows, q)} :
                     q \in {LoadQuery(a)}}}

\* _go_to_page: the page clamped to 1..max_page of the total last loaded.
_go_to_page(a, page, rows) ==
    _load_data([a EXCEPT !.current_page =
                    IF page < 1 THEN 1
                    ELSE IF page > max_page(a) THEN max_page(a)
                    ELSE page], rows)

\* The start-up timers (100 ms and 200 ms after construction) have run:
\* the model has the user act on the window after them.
StartedUp == app.timers = <<>>

\* A handler of the main thread has run and its reload has finished.
Handled(op, a) ==
    /\ app' = a
    /\ UNCHANGED last

\* The buttons first, previous, next and last page.
GoToFirstPage ==
    /\ StartedUp
    /\ app.prev_btn = "normal"
    /\ \E a \in _go_to_page(app, 1, students) : Handled("first_btn", a)
    /\ UNCHANGED <<students, sqlite_sequence, call, class_counters, progress,
                   threads, events>>

GoToPrevPage ==
    /\ StartedUp
    /\ app.prev_btn = "normal"
    /\ \E a \in _go_to_page(app, app.current_page - 1, students) :
        Handled("prev_btn", a)
    /\ UNCHANGED <<students, sqlite_sequence, call, class_counters, progress,
                   threads, events>>

GoToNextPage ==
    /\ StartedUp
    /\ app.next_btn = "normal"
    /\ \E a \in _go_to_page(app, app.current_page + 1, students) :
        Handled("next_btn", a)
    /\ UNCHANGED <<students, sqlite_sequence, call, class_counters, progress,
                   threads, events>>

_go_to_last_page ==
    /\ StartedUp
    /\ app.next_btn = "normal"
    /\ \E a \in _go_to_page(app, max_page(app), students) :
        Handled("last_btn", a)
    /\ UNCHANGED <<students, sqlite_sequence, call, class_counters, progress,
                   threads, events>>

\* _on_search, _on_filter_change, _on_score_change and _reset_filters: the
\* filter fields are set, current_page is 1, the data is reloaded.
_on_search(keyword) ==
    /\ StartedUp
    /\ \E a \in _load_data([app EXCEPT !.filter_keyword = keyword,
                                        !.current_page = 1], students) :
        Handled("_on_search", a)
    /\ UNCHANGED <<students, sqlite_sequence, call, class_counters, progress,
                   threads, events>>

_on_filter_change(class_val, major_val) ==
    /\ StartedUp
    /\ \E a \in _load_data([app EXCEPT !.filter_class = class_val,
                                        !.filter_major = major_val,
                                        !.current_page = 1], students) :
        Handled("_on_filter_change", a)
    /\ UNCHANGED <<students, sqlite_sequence, call, class_counters, progress,
                   threads, events>>

_on_score_change(min_score, max_score) ==
    /\ StartedUp
    /\ \E a \in _load_data(
                    [app EXCEPT !.filter_min_score = Min(min_score, max_score),
                                !.filter_max_score = max_score,
                                !.current_page = 1], students) :
        Handled("_on_score_change", a)
    /\ UNCHANGED <<students, sqlite_sequence, call, class_counters, progress,
                   threads, events>>

_reset_filters ==
    /\ StartedUp
    /\ \E a \in _load_data([app EXCEPT !.filter_keyword = <<>>,
                                        !.filter_class = <<>>,
                                        !.filter_major = <<>>,
                                        !.filter_min_score = 0,
                                        !.filter_max_score = 100,
                                        !.current_page = 1], students) :
        Handled("_reset_filters", a)
    /\ UNCHANGED <<students, sqlite_sequence, call, class_counters, progress,
                   threads, events>>

\* _on_sort: the same column flips the direction, another column sorts
\* ascending; current_page is kept.
_on_sort(column) ==
    /\ StartedUp
    /\ \E a \in _load_data(
                    [app EXCEPT !.sort_desc = IF app.sort_column = column
                                              THEN ~app.sort_desc ELSE FALSE,
                                !.sort_column = column], students) :
        Handled("_on_sort", a)
    /\ UNCHANGED <<students, sqlite_sequence, call, class_counters, progress,
                   threads, events>>

\* _on_select: a row of the table is selected.  (The table hands the id back
\* as a number; the TEXT affinity of the column makes it compare as the
\* text it was.)
_on_select(k) ==
    /\ StartedUp
    /\ k \in DOMAIN app.tree
    /\ app.selected_student # app.tree[k]
    /\ Handled("_on_select", [app EXCEPT !.selected_student = app.tree[k]])
    /\ UNCHANGED <<students, sqlite_sequence, call, class_counters, progress,
                   threads, events>>

\* _on_add: the dialog returns a record that passed validate_student_data
\* and whose id is not stored; the data is reloaded when add_student
\* succeeds.
_on_add(result) ==
    /\ StartedUp
    /\ sqlite_sequence < MaxPagingRowId
    /\ validate_student_data(result).ok
    /\ get_student(students, result.student_id) = NoData
    /\ \E r \in {add_student(students, sqlite_sequence, result)} :
        /\ r.ok
        /\ students' = r.rows
        /\ sqlite_sequence' = r.seq
        /\ \E a \in _load_data(app, r.rows) : Handled("_on_add", a)
    /\ UNCHANGED <<call, class_counters, progress, threads, events>>

\* _on_edit: the dialog is filled from the stored record of the selection
\* and returns it with a new score; the selection is dropped and the data
\* reloaded when update_student succeeds.
_on_edit(score) ==
    /\ StartedUp
    /\ app.selected_student # Absent
    /\ get_student(students, app.selected_student) # NoData
    /\ \E student \in {get_student(students, app.selected_student)} :
       \E r \in {update_student(students, student.student_id,
                                [student EXCEPT !.score = score])} :
        /\ validate_student_data([student EXCEPT !.score = score]).ok
        /\ r.ok
        /\ students' = r.rows
        /\ \E a \in _load_data([app EXCEPT !.selected_student = Absent],
                               r.rows) : Handled("_on_edit", a)
    /\ UNCHANGED <<sqlite_sequence, call, class_counters, progress, threads,
                   events>>

\* _on_delete: the selection is deleted after the confirmation; the
\* selection is dropped and the data reloaded when delete_student succeeds.
_on_delete ==
    /\ StartedUp
    /\ app.selected_student # Absent
    /\ \E r \in {delete_student(students, app.selected_student)} :
        /\ r.ok
        /\ students' = r.rows
        /\ \E a \in _load_data([app EXCEPT !.selected_student = Absent],
                               r.rows) : Handled("_on_delete", a)
    /\ UNCHANGED <<sqlite_sequence, call, class_counters, progress, threads,
                   events>>

\* Generation as the main thread sees it once it is over: the records of
\* generate_sample_data are stored and _on_generate_complete has reloaded
\* the data.
GenerateAndReload(op, a) ==
    \E r \in generate_sample_data(students, sqlite_sequence, GenerateCount) :
        /\ students' = r.rows
        /\ sqlite_sequence' = r.seq
        /\ \E b \in _load_data(a, r.rows) : Handled(op, b)

\* The button of _on_generate_data.
GenerateData ==
    /\ StartedUp
    /\ sqlite_sequence < MaxPagingRowId
    /\ GenerateAndReload("_on_generate_data", app)
    /\ UNCHANGED <<call, class_counters, progress, threads, events>>

\* The start-up timers: _check_and_generate_data generates when the store
\* is empty, _load_data loads the first page.
StartUpTimer ==
    /\ app.timers # <<>>
    /\ \E a \in {[app EXCEPT !.timers = Tail(app.timers)]} :
        IF Head(app.timers) = "_load_data"
            THEN /\ \E b \in _load_data(a, students) : Handled("_load_data", b)
                 /\ UNCHANGED <<students, sqlite_sequence>>
        ELSE IF get_count(students) = 0
            THEN GenerateAndReload("_check_and_generate_data", a)
        ELSE /\ Handled("_check_and_generate_data", a)
             /\ UNCHANGED <<students, sqlite_sequence>>
    /\ UNCHANGED <<call, class_counters, progress, threads, events>>

\* The inputs of the handlers.
PagingKeywords == {<<"A">>}

PagingScores == {<<60, 85>>}

PagingColumns == {"student_id"}

PagingAdds == {BaseRecord(Sid2)}

PagingEdits == {FloatV(0)}

NextPaging ==
    \/ StartUpTimer
    \/ GenerateData
    \/ GoToFirstPage
    \/ GoToPrevPage
    \/ GoToNextPage
    \/ _go_to_last_page
    \/ \E keyword \in PagingKeywords : _on_search(keyword)
    \/ _on_filter_change(Class1, <<>>)
    \/ \E s \in PagingScores : _on_score_change(s[1], s[2])
    \/ _reset_filters
    \/ \E column \in PagingColumns : _on_sort(column)
    \/ \E k \in 1..PageSize : _on_select(k)
    \/ \E result \in PagingAdds : _on_add(result)
    \/ \E score \in PagingEdits : _on_edit(score)
    \/ _on_delete

SpecPaging == Init /\ [][NextPaging]_vars

\* C28: after every UI action and its reload, current_page is between 1 and
\* max(1, ceil(total_records / page_size)), and the page shown is not empty
\* when a record matches the filters.
C28_PageInRange ==
    /\ 1 <= app.current_page
    /\ app.current_page <= max_page(app)
    /\ app.total_records > 0 => app.tree # <<>>

\* ------------------------------------- MainApp: background generation

\* The generation tasks the model lets the window start.
MaxTasks == 2

\* The number of times x occurs in the sequence.
CountOf(seq, x) == Cardinality({k \in DOMAIN seq : seq[k] = x})

\* The tasks whose thread has been started.
StartedTasks == {threads[k].task : k \in DOMAIN threads}

\* The number the next call of _on_generate_data gets: one per
\* ProgressDialog ever created.
NextTask == Cardinality(app.dialogs \cup Range(app.completed)) + 1

\* _on_generate_data up to self.update() of ProgressDialog.__init__: the
\* dialog exists and holds the grab, the call is inside update().
ProgressDialog(a, task) ==
    [a EXCEPT !.dialogs = @ \cup {task}, !.opening = <<task>> \o @]

\* The thread of do_generate before its first statement.
NewThread(task) ==
    [task |-> task, pc |-> "generate_students", list |-> <<>>, i |-> 1,
     rows |-> <<>>, seq |-> 0, inserted |-> {}, success_count |-> 0,
     fail_count |-> 0]

\* The callbacks self.after(0, ...) of the worker thread, as the event loop
\* holds them.
update_progress(task, value) ==
    [callback |-> "update_progress", task |-> task, args |-> value]

OnGenerateComplete(task, success, failed) ==
    [callback |-> "_on_generate_complete", task |-> task,
     args |-> <<success, failed>>]

\* A read the main thread has made on a connection of its own in the step
\* that led to the state, with the total it reported; any other step of the
\* window or of a worker thread leaves NoLast.
MainThreadRead(op, total) ==
    [NoLast EXCEPT !.op = op, !.total_count = total]

\* The worker holds the write lock of the database file from its first
\* INSERT to its commit.
HoldsLock(w) == w.pc = "batch_insert" /\ w.i > 1

LockedByOther(k) ==
    \E j \in DOMAIN threads : j # k /\ HoldsLock(threads[j])

\* Fault: every INSERT is committed on its own.
OtherConnectionsSee_Uncommitted(committed, tx) == tx

\* What the other connections read while a transaction is open: the
\* committed table, without the rows the transaction has inserted.
OtherConnectionsSee(committed, tx) == committed

\* Fault: the sqlite3.OperationalError of a locked database leaves
\* batch_insert and ends the thread.
Locked_Uncaught(w) == [w EXCEPT !.pc = "raised"]

\* The INSERT that cannot get the write lock within the timeout raises
\* sqlite3.OperationalError: _get_connection rolls back, batch_insert
\* catches the exception and returns its counters.
Locked(w) == [w EXCEPT !.pc = "return", !.rows = <<>>, !.inserted = {}]

\* A click on the generate button: no dialog holds the grab.
ClickGenerate ==
    /\ app.dialogs = {}
    /\ NextTask <= MaxTasks
    /\ app' = ProgressDialog(app, NextTask)
    /\ last' = NoLast
    /\ UNCHANGED <<students, sqlite_sequence, call, class_counters, progress,
                   threads, events>>

\* A start-up timer fires, in the main loop or inside the update() of a
\* dialog being created: _check_and_generate_data calls _on_generate_data
\* when is_empty() reads an empty store, _load_data loads the first page.
TimerFires ==
    /\ app.timers # <<>>
    /\ UNCHANGED <<students, sqlite_sequence, call, class_counters, progress,
                   threads, events>>
    /\ \E a \in {[app EXCEPT !.timers = Tail(app.timers)]} :
        IF Head(app.timers) = "_load_data"
            THEN \E b \in _load_data(a, students) :
                    /\ app' = b
                    /\ last' = MainThreadRead("search_students",
                                              b.total_records)
        ELSE /\ last' = MainThreadRead("is_empty", get_count(students))
             /\ IF get_count(students) = 0 /\ NextTask <= MaxTasks
                    THEN app' = ProgressDialog(a, NextTask)
                ELSE app' = a

\* update() of the innermost ProgressDialog.__init__ returns when no
\* callback is pending, and _on_generate_data starts its thread.
StartThread ==
    /\ app.opening # <<>>
    /\ events = <<>>
    /\ app' = [app EXCEPT !.opening = Tail(@)]
    /\ threads' = Append(threads, NewThread(Head(app.opening)))
    /\ last' = NoLast
    /\ UNCHANGED <<students, sqlite_sequence, call, class_counters, progress,
                   events>>

\* The callbacks in the order they were registered: update_progress sets
\* the bar of its dialog, _on_generate_complete closes the dialog of its
\* task and reloads the data.
RECURSIVE RunCallbacks(_, _, _)
RunCallbacks(a, callbacks, rows) ==
    IF callbacks = <<>> THEN {a}
    ELSE UNION {UNION {RunCallbacks(b, rest, rows) :
                        b \in IF head.callback = "update_progress" THEN {a}
                              ELSE UNION {_load_data(c, rows) :
                                    c \in {[a EXCEPT
                                              !.dialogs = @ \ {head.task},
                                              !.completed =
                                                  Append(@, head.task)]}}} :
                <<head, rest>> \in {<<Head(callbacks), Tail(callbacks)>>}}

\* The event loop runs the after(0) callbacks that are due, all of them in
\* one pass of its timer handler.
HandleEvents ==
    /\ events # <<>>
    /\ events' = <<>>
    /\ UNCHANGED <<students, sqlite_sequence, call, class_counters, progress,
                   threads>>
    /\ \E b \in RunCallbacks(app, events, students) :
        /\ app' = b
        /\ last' = IF \E k \in DOMAIN events :
                        events[k].callback = "_on_generate_complete"
                       THEN MainThreadRead("search_students", b.total_records)
                   ELSE NoLast

\* generate_sample_data up to batch_insert: the records are generated, each
\* progress callback is handed to the event loop, the connection is opened.
WorkerGenerate(k) ==
    /\ k \in DOMAIN threads
    /\ threads[k].pc = "generate_students"
    /\ \E g \in generate_students(NoCounters, GenerateCount, SampleSeed) :
        /\ threads' = [threads EXCEPT ![k] =
                          [@ EXCEPT !.pc = "batch_insert",
                                    !.list = g.students]]
        /\ events' = events
                \o [j \in 1..Len(g.progress) |->
                        update_progress(threads[k].task, g.progress[j])]
                \o <<update_progress(
                        threads[k].task,
                        progress_callback(GenerateCount, GenerateCount))>>
    /\ last' = NoLast
    /\ UNCHANGED <<students, sqlite_sequence, call, class_counters, progress,
                   app>>

\* One INSERT of the loop of batch_insert, inside the transaction of the
\* worker's connection: the first one takes the write lock and sees the
\* committed table.
WorkerInsert(k) ==
    /\ k \in DOMAIN threads
    /\ threads[k].pc = "batch_insert"
    /\ threads[k].i <= Len(threads[k].list)
    /\ ~LockedByOther(k)
    /\ \E w \in {threads[k]} :
       \E ins \in {IF w.i = 1
                       THEN SqlInsert(students, sqlite_sequence, w.list[w.i])
                   ELSE SqlInsert(w.rows, w.seq, w.list[w.i])} :
        /\ threads' = [threads EXCEPT ![k] =
                [w EXCEPT !.i = @ + 1, !.rows = ins.rows, !.seq = ins.seq,
                          !.inserted = IF ins.err # "" THEN @
                                       ELSE @ \cup {ins.seq},
                          !.success_count = IF ins.err # "" THEN @ ELSE @ + 1,
                          !.fail_count = IF ins.err # "" THEN @ + 1 ELSE @]]
        /\ students' = OtherConnectionsSee(students, ins.rows)
    /\ last' = NoLast
    /\ UNCHANGED <<sqlite_sequence, call, class_counters, progress, app,
                   events>>

\* The first INSERT waits for a lock another connection holds until the
\* timeout of sqlite3.connect has passed.
WorkerLocked(k) ==
    /\ k \in DOMAIN threads
    /\ threads[k].pc = "batch_insert"
    /\ threads[k].i = 1
    /\ LockedByOther(k)
    /\ threads' = [threads EXCEPT ![k] = Locked(@)]
    /\ last' = NoLast
    /\ UNCHANGED <<students, sqlite_sequence, call, class_counters, progress,
                   app, events>>

\* conn.commit(): the rows of the transaction become the committed table.
WorkerCommit(k) ==
    /\ k \in DOMAIN threads
    /\ threads[k].pc = "batch_insert"
    /\ threads[k].i > Len(threads[k].list)
    /\ students' = threads[k].rows
    /\ sqlite_sequence' = threads[k].seq
    /\ threads' = [threads EXCEPT ![k] = [@ EXCEPT !.pc = "return"]]
    /\ last' = NoLast
    /\ UNCHANGED <<call, class_counters, progress, app, events>>

\* batch_insert returns its counters, generate_sample_data reports them and
\* do_generate hands _on_generate_complete to the event loop.
WorkerReturn(k) ==
    /\ k \in DOMAIN threads
    /\ threads[k].pc = "return"
    /\ threads' = [threads EXCEPT ![k] = [@ EXCEPT !.pc = "done"]]
    /\ events' = events
            \o <<update_progress(
                    threads[k].task,
                    progress_callback(threads[k].success_count, GenerateCount)),
                 OnGenerateComplete(threads[k].task, threads[k].success_count,
                                    threads[k].fail_count)>>
    /\ last' = NoLast
    /\ UNCHANGED <<students, sqlite_sequence, call, class_counters, progress,
                   app>>

\* A step of the thread k.
WorkerStep(k) ==
    \/ WorkerGenerate(k)
    \/ WorkerInsert(k)
    \/ WorkerLocked(k)
    \/ WorkerCommit(k)
    \/ WorkerReturn(k)

\* A step of the event loop of the main thread that needs no user.
MainLoop ==
    \/ StartThread
    \/ HandleEvents
    \/ TimerFires

NextApp ==
    \/ ClickGenerate
    \/ MainLoop
    \/ \E k \in 1..MaxTasks : WorkerStep(k)

SpecApp == Init /\ [][NextApp]_vars

\* A step that needs no user: of the event loop or of a worker thread.
Scheduled ==
    \/ \E k \in 1..MaxTasks : WorkerStep(k)
    \/ MainLoop

\* The scheduler does not stop while a thread can take a step: mainloop()
\* handles the timers and callbacks that are due, the worker threads run.
SpecAppFair == SpecApp /\ WF_vars(Scheduled)

\* The tasks whose thread has been started and which _on_generate_complete
\* has not run for.
RunningTasks == StartedTasks \ Range(app.completed)

\* C26: at most one generation task runs at any time: no second thread is
\* started while an earlier task has not reached _on_generate_complete.
C26_SingleTask == Cardinality(RunningTasks) <= 1

\* The rows of the committed table that the transaction of the worker
\* inserted.
BatchRowsSeen(w) == {j \in DOMAIN students : students[j].id \in w.inserted}

Completed(task) ==
    /\ \E k \in DOMAIN threads :
        threads[k].task = task /\ threads[k].pc = "done"
    /\ CountOf(app.completed, task) = 1
    /\ task \notin app.dialogs

\* C25: under fair scheduling every started generation task is completed:
\* generate_sample_data ends, _on_generate_complete runs for the task, never
\* more than once, and the progress dialog is closed, whether the records
\* were inserted, rejected or the database was locked.
C25_Terminates ==
    /\ \A task \in 1..MaxTasks : (task \in StartedTasks) ~> Completed(task)
    /\ [](\A task \in 1..MaxTasks : CountOf(app.completed, task) <= 1)

\* Two tasks have been completed, one of them after a batch that inserted
\* nothing.
C25_Witness ==
    /\ \A task \in 1..MaxTasks : Completed(task)
    /\ \E k \in DOMAIN threads : threads[k].success_count = 0

====
